---- MODULE Spec2Model ----
(***************************************************************************)
(* Reference parsing, fuzzy ranking and keyword scanning of RambamBot.      *)
(*                                                                         *)
(* Python strings are modelled as sequences of one-character strings, so    *)
(* that the regular expressions, str.lower, str.strip, int() and the        *)
(* f-string reassembly are computed character by character.                 *)
(***************************************************************************)
EXTENDS Integers, Sequences, FiniteSets, TLC

VARIABLES
    op,          \* which component the behaviour exercises, and how far it got
    user_input,  \* argument of BibleBooks.extract_book_reference
    parsed,      \* the dict extract_book_reference returned
    first,       \* the dict of the first parse, kept while its reference is re-parsed
    data_list,     \* fuzzy_match_best_dicts: the candidate dicts
    target_values, \* fuzzy_match_best_dicts: the target value of each target field, or None
    similarity,    \* what fuzzywuzzy.fuzz.ratio answers for two different non-empty strings
    matches,       \* fuzzy_match_best_dicts: the (candidate, total_score) list it builds
    params,        \* get_sefaria_text: the parameters of its text request
    response,         \* fetch_sefaria_index: the answer of the index request
    sefaria_index,    \* SefariaAPI.sefaria_index: the leaf records of the fetched index
    christian_titles, \* KeywordMessageParser.christian_titles
    jewish_titles,    \* KeywordMessageParser.jewish_titles
    message,          \* argument of KeywordMessageParser.parse_message
    combined_matches, \* parse_message: the (start, source, reference) list it builds
    dispatched,       \* parse_message: the lookups it has called, in call order
    receiver,         \* convert_version: what it is called on
    version,          \* convert_version: its argument
    converted,        \* convert_version: what it returned
    converted_back,   \* what convert_version returned for that result
    pc,               \* concurrent calls: where each call stands
    call_args,        \* concurrent calls: the text each call was given
    frames,           \* concurrent calls: the local variables of each frame
    results,          \* concurrent calls: what each call returned
    titles_arg,       \* fetch_sefaria_versions: its titles argument
    max_threads,      \* fetch_sefaria_versions: the size of the worker pool
    futures,          \* fetch_sefaria_versions: the submitted tasks, one for each title
    count,            \* fetch_sefaria_versions: the counter the tasks share
    versions_list,    \* fetch_sefaria_versions: its list `versions`
    fetched_versions, \* fetch_sefaria_versions: what it returned
    fv_pc,            \* fetch_sefaria_versions: where the calling thread stands
    embeds,           \* create_paginated_embeds: the embeds to paginate
    header_embed,     \* create_paginated_embeds: the header embed, or None
    footer_embed,     \* create_paginated_embeds: the footer embed, or None
    embeds_per_page,  \* create_paginated_embeds: the page size asked for
    paginated_embeds, \* create_paginated_embeds: the pages it returned
    embed_data,       \* to_discord_embed: the EmbedData it is called on
    source_file,      \* to_discord_embed: which of the two copies of the method runs
    ctx_message,      \* on_command_error: ctx.message
    parse_calls,      \* on_command_error: the texts it has given to parse_message
    query,            \* search_transcripts: its argument
    page,             \* search_transcripts: the page it asks for next
    all_results,      \* search_transcripts: the results it has gathered
    requested,        \* search_transcripts: the requests it has made, in order
    answers           \* search_transcripts: the answers to them, in order

extract_vars == <<user_input, parsed, first>>
rank_vars == <<data_list, target_values, similarity, matches, params>>
scan_vars ==
    <<response, sefaria_index, christian_titles, jewish_titles, message, combined_matches,
      dispatched>>
convert_vars == <<receiver, version, converted, converted_back>>
concurrent_vars == <<pc, call_args, frames, results>>
batch_vars ==
    <<titles_arg, max_threads, futures, count, versions_list, fetched_versions, fv_pc>>
page_vars == <<embeds, header_embed, footer_embed, embeds_per_page, paginated_embeds>>
embed_vars == <<embed_data, source_file>>
handler_vars == <<ctx_message, parse_calls>>
search_vars == <<query, page, all_results, requested, answers>>
service_vars ==
    <<concurrent_vars, batch_vars, page_vars, embed_vars, handler_vars, search_vars>>
\* the variables of the other components, seen from each of them
beside_concurrent == <<batch_vars, page_vars, embed_vars, handler_vars, search_vars>>
beside_batch == <<concurrent_vars, page_vars, embed_vars, handler_vars, search_vars>>
beside_page == <<concurrent_vars, batch_vars, embed_vars, handler_vars, search_vars>>
beside_embed == <<concurrent_vars, batch_vars, page_vars, handler_vars, search_vars>>
beside_handler == <<concurrent_vars, batch_vars, page_vars, embed_vars, search_vars>>
beside_search == <<concurrent_vars, batch_vars, page_vars, embed_vars, handler_vars>>
vars == <<op, extract_vars, rank_vars, scan_vars, convert_vars, service_vars>>

----------------------------------------------------------------------------
(* Characters and the character classes of Python's re module.              *)

UpperChars ==
    {"A","B","C","D","E","F","G","H","I","J","K","L","M",
     "N","O","P","Q","R","S","T","U","V","W","X","Y","Z"}

LowerChars ==
    {"a","b","c","d","e","f","g","h","i","j","k","l","m",
     "n","o","p","q","r","s","t","u","v","w","x","y","z"}

\* [A-Za-z]
AlphaChars == UpperChars \cup LowerChars

\* \d
DigitChars == {"0","1","2","3","4","5","6","7","8","9"}

\* \s
SpaceChars == {" ", "\t", "\n"}

\* \w
WordChars == AlphaChars \cup DigitChars \cup {"_"}

UpperSeq == <<"A","B","C","D","E","F","G","H","I","J","K","L","M",
              "N","O","P","Q","R","S","T","U","V","W","X","Y","Z">>

LowerSeq == <<"a","b","c","d","e","f","g","h","i","j","k","l","m",
              "n","o","p","q","r","s","t","u","v","w","x","y","z">>

DigitSeq == <<"0","1","2","3","4","5","6","7","8","9">>

\* str.lower on one character
LowerChar(c) ==
    IF c \in UpperChars
    THEN LowerSeq[CHOOSE i \in 1..26 : UpperSeq[i] = c]
    ELSE c

\* str.upper on one character
UpperChar(c) ==
    IF c \in LowerChars
    THEN UpperSeq[CHOOSE i \in 1..26 : LowerSeq[i] = c]
    ELSE c

\* str.lower
Lower(s) == [i \in 1..Len(s) |-> LowerChar(s[i])]

\* str.upper
Upper(s) == [i \in 1..Len(s) |-> UpperChar(s[i])]

\* Python's None; no string is equal to it
None == <<"<None>">>

\* truthiness of an Optional[str]
Truthy(x) == x # None /\ x # <<>>

\* f"{x}"
Str(x) == IF x = None THEN <<"N","o","n","e">> ELSE x

\* the first index >= i of s whose character is outside class C (Len(s)+1 if none):
\* where a greedy C* or C+ that starts at i stops
SkipWhile(s, i, C) ==
    LET stops == {j \in i..Len(s) : s[j] \notin C}
    IN  IF stops = {} THEN Len(s) + 1
        ELSE CHOOSE j \in stops : \A k \in stops : j <= k

\* s[i] is a character of class C
At(s, i, C) == i >= 1 /\ i <= Len(s) /\ s[i] \in C

\* str.strip
Strip(s) ==
    LET keep == {j \in 1..Len(s) : s[j] \notin SpaceChars}
    IN  IF keep = {} THEN <<>>
        ELSE SubSeq(s, CHOOSE j \in keep : \A k \in keep : j <= k,
                       CHOOSE j \in keep : \A k \in keep : j >= k)

\* the value of one decimal digit
DigitVal(c) == (CHOOSE i \in 1..10 : DigitSeq[i] = c) - 1

\* int() of a string of decimal digits
RECURSIVE ToInt(_)
ToInt(s) ==
    IF Len(s) = 0 THEN 0
    ELSE 10 * ToInt(SubSeq(s, 1, Len(s) - 1)) + DigitVal(s[Len(s)])

\* str() of a natural number
RECURSIVE ToStr(_)
ToStr(n) ==
    IF n < 10 THEN <<DigitSeq[n + 1]>>
    ELSE ToStr(n \div 10) \o <<DigitSeq[(n % 10) + 1]>>

----------------------------------------------------------------------------
(* Canon Registry: BibleBooks.bible_books, as embedded, in table order      *)
(* (duplicate entries included).                                            *)

bible_books ==
  <<
    [book |-> <<"G","e","n","e","s","i","s">>,
     abbreviations |-> <<<<"G","e","n">>,
        <<"G","e">>,
        <<"G","n">>>>],
    [book |-> <<"E","x","o","d","u","s">>,
     abbreviations |-> <<<<"E","x","o","d">>,
        <<"E","x">>,
        <<"E","x","o">>>>],
    [book |-> <<"L","e","v","i","t","i","c","u","s">>,
     abbreviations |-> <<<<"L","e","v">>,
        <<"L","v">>,
        <<"L","e">>>>],
    [book |-> <<"N","u","m","b","e","r","s">>,
     abbreviations |-> <<<<"N","u","m">>,
        <<"N","u">>,
        <<"N","m">>,
        <<"N","b">>>>],
    [book |-> <<"D","e","u","t","e","r","o","n","o","m","y">>,
     abbreviations |-> <<<<"D","e","u","t">>,
        <<"D","t">>,
        <<"D","e">>>>],
    [book |-> <<"J","o","s","h","u","a">>,
     abbreviations |-> <<<<"J","o","s","h">>,
        <<"J","o","s">>,
        <<"J","s","h">>>>],
    [book |-> <<"J","u","d","g","e","s">>,
     abbreviations |-> <<<<"J","u","d","g">>,
        <<"J","d","g">>,
        <<"J","d","g","s">>,
        <<"J","g">>>>],
    [book |-> <<"R","u","t","h">>,
     abbreviations |-> <<<<"R","u","t","h">>,
        <<"R","u">>,
        <<"R","t","h">>>>],
    [book |-> <<"1"," ","S","a","m","u","e","l">>,
     abbreviations |-> <<<<"1"," ","S","a","m">>,
        <<"1"," ","S","m">>,
        <<"1"," ","S","a">>,
        <<"I"," ","S","a","m">>,
        <<"I"," ","S","a">>,
        <<"I"," ","S","m">>,
        <<"F","i","r","s","t"," ","S","a","m","u","e","l">>,
        <<"F","i","r","s","t"," ","S","a","m">>>>],
    [book |-> <<"2"," ","S","a","m","u","e","l">>,
     abbreviations |-> <<<<"2"," ","S","a","m">>,
        <<"2"," ","S","m">>,
        <<"2"," ","S","a">>,
        <<"I","I"," ","S","a","m">>,
        <<"I","I"," ","S","a">>,
        <<"I","I"," ","S","m">>,
        <<"S","e","c","o","n","d"," ","S","a","m","u","e","l">>,
        <<"S","e","c","o","n","d"," ","S","a","m">>>>],
    [book |-> <<"1"," ","K","i","n","g","s">>,
     abbreviations |-> <<<<"1"," ","K","i","n","g","s">>,
        <<"1"," ","K","g","s">>,
        <<"1"," ","K","i">>,
        <<"1","K","g","s">>,
        <<"1","K","i","n">>,
        <<"1","K","i">>,
        <<"1","K">>,
        <<"I"," ","K","g","s">>,
        <<"I"," ","K","i">>,
        <<"1","s","t"," ","K","i","n","g","s">>,
        <<"1","s","t"," ","K","g","s">>,
        <<"F","i","r","s","t"," ","K","i","n","g","s">>,
        <<"F","i","r","s","t"," ","K","g","s">>>>],
    [book |-> <<"2"," ","K","i","n","g","s">>,
     abbreviations |-> <<<<"2"," ","K","i","n","g","s">>,
        <<"2"," ","K","g","s">>,
        <<"2"," ","K","i">>,
        <<"2","K","g","s">>,
        <<"2","K","i","n">>,
        <<"2","K","i">>,
        <<"2","K">>,
        <<"I","I"," ","K","g","s">>,
        <<"I","I"," ","K","i">>,
        <<"2","n","d"," ","K","i","n","g","s">>,
        <<"2","n","d"," ","K","g","s">>,
        <<"S","e","c","o","n","d"," ","K","i","n","g","s">>,
        <<"S","e","c","o","n","d"," ","K","g","s">>>>],
    [book |-> <<"1"," ","C","h","r","o","n","i","c","l","e","s">>,
     abbreviations |-> <<<<"1"," ","C","h","r","o","n">>,
        <<"1"," ","C","h","r">>,
        <<"1"," ","C","h">>,
        <<"1","C","h","r","o","n">>,
        <<"1","C","h","r">>,
        <<"1","C","h">>,
        <<"I"," ","C","h","r","o","n">>,
        <<"I"," ","C","h","r">>,
        <<"I"," ","C","h">>,
        <<"1","s","t"," ","C","h","r","o","n","i","c","l","e","s">>,
        <<"1","s","t"," ","C","h","r","o","n">>,
        <<"F","i","r","s","t"," ","C","h","r","o","n","i","c","l","e","s">>,
        <<"F","i","r","s","t"," ","C","h","r","o","n">>>>],
    [book |-> <<"2"," ","C","h","r","o","n","i","c","l","e","s">>,
     abbreviations |-> <<<<"2"," ","C","h","r","o","n">>,
        <<"2"," ","C","h","r">>,
        <<"2"," ","C","h">>,
        <<"2","C","h","r","o","n">>,
        <<"2","C","h","r">>,
        <<"2","C","h">>,
        <<"I","I"," ","C","h","r","o","n">>,
        <<"I","I"," ","C","h","r">>,
        <<"I","I"," ","C","h">>,
        <<"2","n","d"," ","C","h","r","o","n","i","c","l","e","s">>,
        <<"2","n","d"," ","C","h","r","o","n">>,
        <<"S","e","c","o","n","d"," ","C","h","r","o","n","i","c","l","e","s">>,
        <<"S","e","c","o","n","d"," ","C","h","r","o","n">>>>],
    [book |-> <<"E","z","r","a">>,
     abbreviations |-> <<<<"E","z">>,
        <<"E","z","r">>>>],
    [book |-> <<"N","e","h","e","m","i","a","h">>,
     abbreviations |-> <<<<"N","e","h">>,
        <<"N","e">>>>],
    [book |-> <<"E","s","t","h","e","r">>,
     abbreviations |-> <<<<"E","s","t","h">>,
        <<"E","s","t">>,
        <<"E","s">>>>],
    [book |-> <<"J","o","b">>,
     abbreviations |-> <<<<"J","b">>>>],
    [book |-> <<"P","s","a","l","m","s">>,
     abbreviations |-> <<<<"P","s">>,
        <<"P","s","a">>,
        <<"P","s","m">>,
        <<"P","s","s">>,
        <<"P","s","a","l","m">>,
        <<"P","s","l","m">>>>],
    [book |-> <<"P","r","o","v","e","r","b","s">>,
     abbreviations |-> <<<<"P","r","o","v">>,
        <<"P","r","v">>,
        <<"P","r">>,
        <<"P","r","o">>>>],
    [book |-> <<"E","c","c","l","e","s","i","a","s","t","e","s">>,
     abbreviations |-> <<<<"E","c","c","l","e","s">>,
        <<"E","c","c","l","e">>,
        <<"E","c","c","l">>,
        <<"E","c","c">>,
        <<"Q","o","h","e","l","e","t","h">>,
        <<"Q","o","h">>>>],
    [book |-> <<"S","o","n","g"," ","o","f"," ","S","o","n","g","s">>,
     abbreviations |-> <<<<"S","o","n","g">>,
        <<"S","o","S">>,
        <<"S","o","n","g"," ","o","f"," ","S","o","l","o","m","o","n">>,
        <<"S","o">>,
        <<"C","a","n","t","i","c","l","e","s">>,
        <<"C","a","n","t","i","c","l","e"," ","o","f"," ","C","a","n","t","i","c","l","e","s">>,
        <<"C","a","n","t">>>>],
    [book |-> <<"I","s","a","i","a","h">>,
     abbreviations |-> <<<<"I","s","a">>,
        <<"I","s">>>>],
    [book |-> <<"J","e","r","e","m","i","a","h">>,
     abbreviations |-> <<<<"J","e","r">>,
        <<"J","e">>,
        <<"J","r">>>>],
    [book |-> <<"L","a","m","e","n","t","a","t","i","o","n","s">>,
     abbreviations |-> <<<<"L","a","m">>,
        <<"L","a">>,
        <<"L","a","m","e","n","t">>>>],
    [book |-> <<"E","z","e","k","i","e","l">>,
     abbreviations |-> <<<<"E","z","e","k">>,
        <<"E","z","e">>,
        <<"E","z","k">>>>],
    [book |-> <<"D","a","n","i","e","l">>,
     abbreviations |-> <<<<"D","a","n">>,
        <<"D","n">>,
        <<"D","a">>>>],
    [book |-> <<"H","o","s","e","a">>,
     abbreviations |-> <<<<"H","o","s">>,
        <<"H","o">>>>],
    [book |-> <<"J","o","e","l">>,
     abbreviations |-> <<<<"J","l">>>>],
    [book |-> <<"A","m","o","s">>,
     abbreviations |-> <<<<"A","m">>>>],
    [book |-> <<"O","b","a","d","i","a","h">>,
     abbreviations |-> <<<<"O","b","a","d">>,
        <<"O","b">>>>],
    [book |-> <<"J","o","n","a","h">>,
     abbreviations |-> <<<<"J","o","n">>,
        <<"J","n","h">>>>],
    [book |-> <<"M","i","c","a","h">>,
     abbreviations |-> <<<<"M","i","c">>,
        <<"M","c">>>>],
    [book |-> <<"N","a","h","u","m">>,
     abbreviations |-> <<<<"N","a","h">>,
        <<"N","a">>>>],
    [book |-> <<"H","a","b","a","k","k","u","k">>,
     abbreviations |-> <<<<"H","a","b">>,
        <<"H","b">>>>],
    [book |-> <<"Z","e","p","h","a","n","i","a","h">>,
     abbreviations |-> <<<<"Z","e","p","h">>,
        <<"Z","e","p">>,
        <<"Z","p">>>>],
    [book |-> <<"H","a","g","g","a","i">>,
     abbreviations |-> <<<<"H","a","g">>,
        <<"H","g">>>>],
    [book |-> <<"Z","e","c","h","a","r","i","a","h">>,
     abbreviations |-> <<<<"Z","e","c","h">>,
        <<"Z","e","c">>,
        <<"Z","c">>>>],
    [book |-> <<"M","a","l","a","c","h","i">>,
     abbreviations |-> <<<<"M","a","l">>,
        <<"M","l">>>>],
    [book |-> <<"M","a","t","t","h","e","w">>,
     abbreviations |-> <<<<"M","a","t","t">>,
        <<"M","t">>>>],
    [book |-> <<"M","a","r","k">>,
     abbreviations |-> <<<<"M","a","r">>,
        <<"M","k">>,
        <<"M","r","k">>,
        <<"M","r">>>>],
    [book |-> <<"L","u","k","e">>,
     abbreviations |-> <<<<"L","k">>,
        <<"L">>>>],
    [book |-> <<"J","o","h","n">>,
     abbreviations |-> <<<<"J","n">>,
        <<"J","h","n">>,
        <<"J","o","h">>>>],
    [book |-> <<"A","c","t","s">>,
     abbreviations |-> <<<<"A","c">>,
        <<"A","c","t">>>>],
    [book |-> <<"R","o","m","a","n","s">>,
     abbreviations |-> <<<<"R","o","m">>,
        <<"R","o">>,
        <<"R","m">>>>],
    [book |-> <<"1"," ","C","o","r","i","n","t","h","i","a","n","s">>,
     abbreviations |-> <<<<"1"," ","C","o","r">>,
        <<"1"," ","C","o">>,
        <<"I"," ","C","o","r">>,
        <<"I"," ","C","o">>,
        <<"1","C","o","r">>,
        <<"1","C","o">>,
        <<"I"," ","C","o","r","i","n","t","h","i","a","n","s">>,
        <<"1","C","o","r","i","n","t","h","i","a","n","s">>,
        <<"1","s","t"," ","C","o","r","i","n","t","h","i","a","n","s">>,
        <<"F","i","r","s","t"," ","C","o","r","i","n","t","h","i","a","n","s">>>>],
    [book |-> <<"2"," ","C","o","r","i","n","t","h","i","a","n","s">>,
     abbreviations |-> <<<<"2"," ","C","o","r">>,
        <<"2"," ","C","o">>,
        <<"I","I"," ","C","o","r">>,
        <<"I","I"," ","C","o">>,
        <<"2","C","o","r">>,
        <<"2","C","o">>,
        <<"I","I"," ","C","o","r","i","n","t","h","i","a","n","s">>,
        <<"2","C","o","r","i","n","t","h","i","a","n","s">>,
        <<"2","n","d"," ","C","o","r","i","n","t","h","i","a","n","s">>,
        <<"S","e","c","o","n","d"," ","C","o","r","i","n","t","h","i","a","n","s">>>>],
    [book |-> <<"G","a","l","a","t","i","a","n","s">>,
     abbreviations |-> <<<<"G","a","l">>,
        <<"G","a">>>>],
    [book |-> <<"E","p","h","e","s","i","a","n","s">>,
     abbreviations |-> <<<<"E","p","h">>,
        <<"E","p">>,
        <<"E","p","h","e","s">>>>],
    [book |-> <<"P","h","i","l","i","p","p","i","a","n","s">>,
     abbreviations |-> <<<<"P","h","i","l">>,
        <<"P","h","p">>,
        <<"P","h","l">>,
        <<"P","p">>>>],
    [book |-> <<"C","o","l","o","s","s","i","a","n","s">>,
     abbreviations |-> <<<<"C","o","l">>,
        <<"C","l">>>>],
    [book |-> <<"C","o","l","o","s","s","i","a","n","s">>,
     abbreviations |-> <<<<"C","o","l">>,
        <<"C","l">>>>],
    [book |-> <<"1"," ","T","h","e","s","s","a","l","o","n","i","a","n","s">>,
     abbreviations |-> <<<<"1"," ","T","h","e","s","s">>,
        <<"1"," ","T","h","e","s">>,
        <<"1"," ","T","h">>,
        <<"I"," ","T","h","e","s","s","a","l","o","n","i","a","n","s">>,
        <<"I"," ","T","h","e","s","s">>,
        <<"I"," ","T","h","e","s">>,
        <<"I"," ","T","h">>,
        <<"1","T","h","e","s","s","a","l","o","n","i","a","n","s">>,
        <<"1","T","h","e","s","s">>,
        <<"1","T","h","e","s">>,
        <<"1","T","h">>,
        <<"1","s","t"," ","T","h","e","s","s","a","l","o","n","i","a","n","s">>,
        <<"1","s","t"," ","T","h","e","s","s">>,
        <<"F","i","r","s","t"," ","T","h","e","s","s","a","l","o","n","i","a","n","s">>,
        <<"F","i","r","s","t"," ","T","h","e","s","s">>>>],
    [book |-> <<"2"," ","T","h","e","s","s","a","l","o","n","i","a","n","s">>,
     abbreviations |-> <<<<"2"," ","T","h","e","s","s">>,
        <<"2"," ","T","h","e","s">>,
        <<"2"," ","T","h">>,
        <<"I","I"," ","T","h","e","s","s","a","l","o","n","i","a","n","s">>,
        <<"I","I"," ","T","h","e","s","s">>,
        <<"I","I"," ","T","h","e","s">>,
        <<"I","I"," ","T","h">>,
        <<"2","T","h","e","s","s","a","l","o","n","i","a","n","s">>,
        <<"2","T","h","e","s","s">>,
        <<"2","T","h","e","s">>,
        <<"2","T","h">>,
        <<"2","n","d"," ","T","h","e","s","s","a","l","o","n","i","a","n","s">>,
        <<"2","n","d"," ","T","h","e","s","s">>,
        <<"S","e","c","o","n","d"," ","T","h","e","s","s","a","l","o","n","i","a","n","s">>,
        <<"S","e","c","o","n","d"," ","T","h","e","s","s">>>>],
    [book |-> <<"1"," ","T","i","m","o","t","h","y">>,
     abbreviations |-> <<<<"1"," ","T","i","m">>,
        <<"1"," ","T","i">>,
        <<"I"," ","T","i","m","o","t","h","y">>,
        <<"I"," ","T","i","m">>,
        <<"I"," ","T","i">>,
        <<"1","T","i","m","o","t","h","y">>,
        <<"1","T","i","m">>,
        <<"1","T","i">>,
        <<"1","s","t"," ","T","i","m","o","t","h","y">>,
        <<"1","s","t"," ","T","i","m">>,
        <<"F","i","r","s","t"," ","T","i","m","o","t","h","y">>,
        <<"F","i","r","s","t"," ","T","i","m">>>>],
    [book |-> <<"2"," ","T","i","m","o","t","h","y">>,
     abbreviations |-> <<<<"2"," ","T","i","m">>,
        <<"2"," ","T","i">>,
        <<"I","I"," ","T","i","m","o","t","h","y">>,
        <<"I","I"," ","T","i","m">>,
        <<"I","I"," ","T","i">>,
        <<"2","T","i","m","o","t","h","y">>,
        <<"2","T","i","m">>,
        <<"2","T","i">>,
        <<"2","n","d"," ","T","i","m","o","t","h","y">>,
        <<"2","n","d"," ","T","i","m">>,
        <<"S","e","c","o","n","d"," ","T","i","m","o","t","h","y">>,
        <<"S","e","c","o","n","d"," ","T","i","m">>>>],
    [book |-> <<"T","i","t","u","s">>,
     abbreviations |-> <<<<"T","i","t","u","s">>,
        <<"T","i","t">>,
        <<"t","i">>>>],
    [book |-> <<"P","h","i","l","e","m","o","n">>,
     abbreviations |-> <<<<"P","h","i","l","e","m">>,
        <<"P","h","m">>,
        <<"P","m">>>>],
    [book |-> <<"H","e","b","r","e","w","s">>,
     abbreviations |-> <<<<"H","e","b">>>>],
    [book |-> <<"J","a","m","e","s">>,
     abbreviations |-> <<<<"J","a","m","e","s">>,
        <<"J","a","s">>,
        <<"J","m">>>>],
    [book |-> <<"1"," ","P","e","t","e","r">>,
     abbreviations |-> <<<<"1"," ","P","e","t">>,
        <<"1"," ","P","e">>,
        <<"1"," ","P","t">>,
        <<"1"," ","P">>,
        <<"I"," ","P","e","t">>,
        <<"I"," ","P","t">>,
        <<"I"," ","P","e">>,
        <<"1","P","e","t","e","r">>,
        <<"1","P","e","t">>,
        <<"1","P","e">>,
        <<"1","P","t">>,
        <<"1","P">>,
        <<"I"," ","P","e","t","e","r">>,
        <<"1","s","t"," ","P","e","t","e","r">>,
        <<"F","i","r","s","t"," ","P","e","t","e","r">>>>],
    [book |-> <<"2"," ","P","e","t","e","r">>,
     abbreviations |-> <<<<"2"," ","P","e","t">>,
        <<"2"," ","P","e">>,
        <<"2"," ","P","t">>,
        <<"2"," ","P">>,
        <<"I","I"," ","P","e","t","e","r">>,
        <<"I","I"," ","P","e","t">>,
        <<"I","I"," ","P","t">>,
        <<"I","I"," ","P","e">>,
        <<"2","P","e","t","e","r">>,
        <<"2","P","e","t">>,
        <<"2","P","e">>,
        <<"2","P","t">>,
        <<"2","P">>,
        <<"2","n","d"," ","P","e","t","e","r">>,
        <<"S","e","c","o","n","d"," ","P","e","t","e","r">>>>],
    [book |-> <<"1"," ","J","o","h","n">>,
     abbreviations |-> <<<<"1"," ","J","o","h","n">>,
        <<"1"," ","J","h","n">>,
        <<"1"," ","J","n">>,
        <<"1"," ","J">>,
        <<"1","J","o","h","n">>,
        <<"1","J","h","n">>,
        <<"1","J","o","h">>,
        <<"1","J","n">>,
        <<"1","J","o">>,
        <<"1","J">>,
        <<"I"," ","J","o","h","n">>,
        <<"I"," ","J","h","n">>,
        <<"I"," ","J","o","h">>,
        <<"I"," ","J","n">>,
        <<"I"," ","J","o">>,
        <<"1","s","t"," ","J","o","h","n">>,
        <<"F","i","r","s","t"," ","J","o","h","n">>>>],
    [book |-> <<"2"," ","J","o","h","n">>,
     abbreviations |-> <<<<"2"," ","J","o","h","n">>,
        <<"2"," ","J","h","n">>,
        <<"2"," ","J","n">>,
        <<"2"," ","J">>,
        <<"2","J","o","h","n">>,
        <<"2","J","h","n">>,
        <<"2","J","o","h">>,
        <<"2","J","n">>,
        <<"2","J","o">>,
        <<"2","J">>,
        <<"I","I"," ","J","o","h","n">>,
        <<"I","I"," ","J","h","n">>,
        <<"I","I"," ","J","o","h">>,
        <<"I","I"," ","J","n">>,
        <<"I","I"," ","J","o">>,
        <<"2","n","d"," ","J","o","h","n">>,
        <<"S","e","c","o","n","d"," ","J","o","h","n">>>>],
    [book |-> <<"3"," ","J","o","h","n">>,
     abbreviations |-> <<<<"3"," ","J","o","h","n">>,
        <<"3"," ","J","h","n">>,
        <<"3"," ","J","n">>,
        <<"3"," ","J">>,
        <<"3","J","o","h","n">>,
        <<"3","J","h","n">>,
        <<"3","J","o","h">>,
        <<"3","J","n">>,
        <<"3","J","o">>,
        <<"3","J">>,
        <<"I","I","I"," ","J","o","h","n">>,
        <<"I","I","I"," ","J","h","n">>,
        <<"I","I","I"," ","J","o","h">>,
        <<"I","I","I"," ","J","n">>,
        <<"I","I","I"," ","J","o">>,
        <<"3","r","d"," ","J","o","h","n">>,
        <<"T","h","i","r","d"," ","J","o","h","n">>>>],
    [book |-> <<"J","u","d","e">>,
     abbreviations |-> <<<<"J","u","d","e">>,
        <<"J","u","d">>,
        <<"J","d">>>>],
    [book |-> <<"R","e","v","e","l","a","t","i","o","n">>,
     abbreviations |-> <<<<"R","e","v">>,
        <<"R","e">>,
        <<"T","h","e"," ","R","e","v","e","l","a","t","i","o","n">>>>],
    [book |-> <<"T","o","b","i","t">>,
     abbreviations |-> <<<<"T","o","b">>,
        <<"T","b">>>>],
    [book |-> <<"J","u","d","i","t","h">>,
     abbreviations |-> <<<<"J","t","h">>,
        <<"J","d","t","h">>,
        <<"J","d","t">>>>],
    [book |-> <<"A","d","d","i","t","i","o","n","s"," ","t","o"," ","E","s","t","h","e","r">>,
     abbreviations |-> <<<<"A","d","d"," ","E","s","t","h">>,
        <<"A","d","d"," ","E","s">>,
        <<"R","e","s","t"," ","o","f"," ","E","s","t","h","e","r">>,
        <<"T","h","e"," ","R","e","s","t"," ","o","f"," ","E","s","t","h","e","r">>,
        <<"A","E","s">>,
        <<"A","d","d","E","s","t","h">>>>],
    [book |-> <<"W","i","s","d","o","m"," ","o","f"," ","S","o","l","o","m","o","n">>,
     abbreviations |-> <<<<"W","i","s","d"," ","o","f"," ","S","o","l">>,
        <<"W","i","s","d","o","m">>,
        <<"W","i","s">>,
        <<"W","s">>>>],
    [book |-> <<"S","i","r","a","c","h">>,
     abbreviations |-> <<<<"S","i","r">>,
        <<"E","c","c","l","e","s","i","a","s","t","i","c","u","s">>>>],
    [book |-> <<"E","c","c","l","e","s","i","a","s","t","i","c","u","s">>,
     abbreviations |-> <<<<"E","c","c","l","u","s">>>>],
    [book |-> <<"B","a","r","u","c","h">>,
     abbreviations |-> <<<<"B","a","r">>>>],
    [book |-> <<"L","e","t","t","e","r"," ","o","f"," ","J","e","r","e","m","i","a","h">>,
     abbreviations |-> <<<<"E","p"," ","J","e","r">>,
        <<"L","e","t"," ","J","e","r">>,
        <<"L","t","r"," ","J","e","r">>,
        <<"L","J","e">>>>],
    [book |-> <<"S","o","n","g"," ","o","f"," ","T","h","r","e","e"," ","Y","o","u","t","h","s">>,
     abbreviations |-> <<<<"S","g"," ","o","f"," ","3"," ","C","h","i","l","d","r">>,
        <<"S","o","n","g"," ","o","f"," ","T","h","r","e","e">>,
        <<"S","o","n","g"," ","o","f"," ","T","h","r">>,
        <<"S","o","n","g"," ","T","h","r">>,
        <<"T","h","e"," ","S","o","n","g"," ","o","f"," ","T","h","r","e","e"," ","Y","o","u","t","h","s">>,
        <<"T","h","e"," ","S","o","n","g"," ","o","f"," ","t","h","e"," ","T","h","r","e","e"," ","H","o","l","y"," ","C","h","i","l","d","r","e","n">>,
        <<"S","o","n","g"," ","o","f"," ","t","h","e"," ","T","h","r","e","e"," ","H","o","l","y"," ","C","h","i","l","d","r","e","n">>,
        <<"S","o","n","g"," ","o","f"," ","T","h","r","e","e"," ","C","h","i","l","d","r","e","n">>,
        <<"T","h","e"," ","S","o","n","g"," ","o","f"," ","T","h","r","e","e"," ","J","e","w","s">>,
        <<"S","o","n","g"," ","o","f"," ","T","h","r","e","e"," ","J","e","w","s">>,
        <<"P","r","a","y","e","r"," ","o","f"," ","A","z","a","r","i","a","h">>,
        <<"A","z","a","r","i","a","h">>,
        <<"P","r"," ","A","z">>>>],
    [book |-> <<"S","u","s","a","n","n","a">>,
     abbreviations |-> <<<<"S","u","s">>>>],
    [book |-> <<"B","e","l"," ","a","n","d"," ","t","h","e"," ","D","r","a","g","o","n">>,
     abbreviations |-> <<<<"B","e","l">>>>],
    [book |-> <<"1"," ","M","a","c","c","a","b","e","e","s">>,
     abbreviations |-> <<<<"1"," ","M","a","c","c">>,
        <<"1"," ","M","a","c">>,
        <<"1","M","a","c","c","a","b","e","e","s">>,
        <<"1","M","a","c","c">>,
        <<"1","M","a","c">>,
        <<"1","M","a">>,
        <<"1","M">>,
        <<"I"," ","M","a","c","c","a","b","e","e","s">>,
        <<"I"," ","M","a","c","c">>,
        <<"I"," ","M","a","c">>,
        <<"I"," ","M","a">>,
        <<"1","s","t"," ","M","a","c","c","a","b","e","e","s">>,
        <<"F","i","r","s","t"," ","M","a","c","c","a","b","e","e","s">>>>],
    [book |-> <<"2"," ","M","a","c","c","a","b","e","e","s">>,
     abbreviations |-> <<<<"2"," ","M","a","c","c">>,
        <<"2"," ","M","a","c">>,
        <<"2","M","a","c","c","a","b","e","e","s">>,
        <<"2","M","a","c","c">>,
        <<"2","M","a","c">>,
        <<"2","M","a">>,
        <<"2","M">>,
        <<"I","I"," ","M","a","c","c","a","b","e","e","s">>,
        <<"I","I"," ","M","a","c","c">>,
        <<"I","I"," ","M","a","c">>,
        <<"I","I"," ","M","a">>,
        <<"2","n","d"," ","M","a","c","c","a","b","e","e","s">>,
        <<"S","e","c","o","n","d"," ","M","a","c","c","a","b","e","e","s">>>>],
    [book |-> <<"3"," ","M","a","c","c","a","b","e","e","s">>,
     abbreviations |-> <<<<"3"," ","M","a","c","c">>,
        <<"3"," ","M","a","c">>,
        <<"3","M","a","c","c","a","b","e","e","s">>,
        <<"3","M","a","c","c">>,
        <<"3","M","a","c">>,
        <<"3","M","a">>,
        <<"3","M">>,
        <<"I","I","I"," ","M","a","c","c","a","b","e","e","s">>,
        <<"I","I","I"," ","M","a","c","c">>,
        <<"I","I","I"," ","M","a","c">>,
        <<"I","I","I"," ","M","a">>,
        <<"3","r","d"," ","M","a","c","c","a","b","e","e","s">>,
        <<"T","h","i","r","d"," ","M","a","c","c","a","b","e","e","s">>>>],
    [book |-> <<"4"," ","M","a","c","c","a","b","e","e","s">>,
     abbreviations |-> <<<<"4"," ","M","a","c","c">>,
        <<"4"," ","M","a","c">>,
        <<"4","M","a","c","c","a","b","e","e","s">>,
        <<"4","M","a","c","c">>,
        <<"4","M","a","c">>,
        <<"4","M","a">>,
        <<"4","M">>,
        <<"I","V"," ","M","a","c","c","a","b","e","e","s">>,
        <<"I","V"," ","M","a","c","c">>,
        <<"I","V"," ","M","a","c">>,
        <<"I","V"," ","M","a">>,
        <<"4","t","h"," ","M","a","c","c","a","b","e","e","s">>,
        <<"F","o","u","r","t","h"," ","M","a","c","c","a","b","e","e","s">>>>],
    [book |-> <<"1"," ","E","s","d","r","a","s">>,
     abbreviations |-> <<<<"1"," ","E","s","d">>,
        <<"1"," ","E","s","d","r">>,
        <<"1","E","s","d","r","a","s">>,
        <<"1","E","s","d","r">>,
        <<"1","E","s","d">>,
        <<"1","E","s">>,
        <<"I"," ","E","s","d","r","a","s">>,
        <<"I"," ","E","s","d","r">>,
        <<"I"," ","E","s","d">>,
        <<"I"," ","E","s">>,
        <<"1","s","t"," ","E","s","d","r","a","s">>,
        <<"F","i","r","s","t"," ","E","s","d","r","a","s">>>>],
    [book |-> <<"2"," ","E","s","d","r","a","s">>,
     abbreviations |-> <<<<"2"," ","E","s","d">>,
        <<"2"," ","E","s","d","r">>,
        <<"2","E","s","d","r","a","s">>,
        <<"2","E","s","d","r">>,
        <<"2","E","s","d">>,
        <<"2","E","s">>,
        <<"I","I"," ","E","s","d","r","a","s">>,
        <<"I","I"," ","E","s","d","r">>,
        <<"I","I"," ","E","s","d">>,
        <<"I","I"," ","E","s">>,
        <<"2","n","d"," ","E","s","d","r","a","s">>,
        <<"S","e","c","o","n","d"," ","E","s","d","r","a","s">>>>],
    [book |-> <<"P","r","a","y","e","r"," ","o","f"," ","M","a","n","a","s","s","e","h">>,
     abbreviations |-> <<<<"P","r"," ","o","f"," ","M","a","n">>,
        <<"P","r"," ","o","f"," ","M","a","n">>,
        <<"P","M","a">>,
        <<"P","r","a","y","e","r"," ","o","f"," ","M","a","n","a","s","s","e","s">>>>],
    [book |-> <<"A","d","d","i","t","i","o","n","a","l"," ","P","s","a","l","m">>,
     abbreviations |-> <<<<"A","d","d"," ","P","s","a","l","m">>,
        <<"A","d","d"," ","P","s">>>>],
    [book |-> <<"O","d","e">>,
     abbreviations |-> <<<<"O","d","e">>>>],
    [book |-> <<"P","s","a","l","m","s"," ","o","f"," ","S","o","l","o","m","o","n">>,
     abbreviations |-> <<<<"P","s"," ","S","o","l","o","m","o","n">>,
        <<"P","s"," ","S","o","l">>,
        <<"P","s","a","l","m","s"," ","S","o","l","o","m","o","n">>,
        <<"P","s","S","o","l">>>>],
    [book |-> <<"E","p","i","s","t","l","e"," ","t","o"," ","t","h","e"," ","L","a","o","d","i","c","e","a","n","s">>,
     abbreviations |-> <<<<"E","p"," ","L","a","o">>,
        <<"E","p","i","s","t","l","e"," ","t","o"," ","L","a","o","d","i","c","e","a","n","s">>,
        <<"E","p","i","s","t","l","e"," ","L","a","o","d","i","c","e","a","n","s">>,
        <<"E","p","i","s","t"," ","L","a","o","d","i","c","e","a","n","s">>,
        <<"E","p"," ","L","a","o","d">>,
        <<"L","a","o","d","i","c","e","a","n","s">>,
        <<"L","a","o","d">>>>],
    [book |-> <<"R","e","v","e","l","a","t","i","o","n">>,
     abbreviations |-> <<<<"R","e","v">>,
        <<"R","e">>,
        <<"T","h","e"," ","R","e","v","e","l","a","t","i","o","n">>>>],
    [book |-> <<"T","o","b","i","t">>,
     abbreviations |-> <<<<"T","o","b">>,
        <<"T","b">>>>],
    [book |-> <<"J","u","d","i","t","h">>,
     abbreviations |-> <<<<"J","t","h">>,
        <<"J","d","t","h">>,
        <<"J","d","t">>>>],
    [book |-> <<"A","d","d","i","t","i","o","n","s"," ","t","o"," ","E","s","t","h","e","r">>,
     abbreviations |-> <<<<"A","d","d"," ","E","s","t","h">>,
        <<"A","d","d"," ","E","s">>,
        <<"R","e","s","t"," ","o","f"," ","E","s","t","h","e","r">>,
        <<"T","h","e"," ","R","e","s","t"," ","o","f"," ","E","s","t","h","e","r">>,
        <<"A","E","s">>,
        <<"A","d","d","E","s","t","h">>>>],
    [book |-> <<"W","i","s","d","o","m"," ","o","f"," ","S","o","l","o","m","o","n">>,
     abbreviations |-> <<<<"W","i","s","d"," ","o","f"," ","S","o","l">>,
        <<"W","i","s","d","o","m">>,
        <<"W","i","s">>,
        <<"W","s">>>>],
    [book |-> <<"S","i","r","a","c","h">>,
     abbreviations |-> <<<<"S","i","r">>,
        <<"E","c","c","l","e","s","i","a","s","t","i","c","u","s">>>>],
    [book |-> <<"E","c","c","l","e","s","i","a","s","t","i","c","u","s">>,
     abbreviations |-> <<<<"E","c","c","l","u","s">>>>],
    [book |-> <<"B","a","r","u","c","h">>,
     abbreviations |-> <<<<"B","a","r">>>>],
    [book |-> <<"L","e","t","t","e","r"," ","o","f"," ","J","e","r","e","m","i","a","h">>,
     abbreviations |-> <<<<"E","p"," ","J","e","r">>,
        <<"L","e","t"," ","J","e","r">>,
        <<"L","t","r"," ","J","e","r">>,
        <<"L","J","e">>>>],
    [book |-> <<"S","o","n","g"," ","o","f"," ","T","h","r","e","e"," ","Y","o","u","t","h","s">>,
     abbreviations |-> <<<<"S","g"," ","o","f"," ","3"," ","C","h","i","l","d","r">>,
        <<"S","o","n","g"," ","o","f"," ","T","h","r","e","e">>,
        <<"S","o","n","g"," ","o","f"," ","T","h","r">>,
        <<"S","o","n","g"," ","T","h","r">>,
        <<"T","h","e"," ","S","o","n","g"," ","o","f"," ","T","h","r","e","e"," ","Y","o","u","t","h","s">>,
        <<"T","h","e"," ","S","o","n","g"," ","o","f"," ","t","h","e"," ","T","h","r","e","e"," ","H","o","l","y"," ","C","h","i","l","d","r","e","n">>,
        <<"S","o","n","g"," ","o","f"," ","t","h","e"," ","T","h","r","e","e"," ","H","o","l","y"," ","C","h","i","l","d","r","e","n">>,
        <<"S","o","n","g"," ","o","f"," ","T","h","r","e","e"," ","C","h","i","l","d","r","e","n">>,
        <<"T","h","e"," ","S","o","n","g"," ","o","f"," ","T","h","r","e","e"," ","J","e","w","s">>,
        <<"S","o","n","g"," ","o","f"," ","T","h","r","e","e"," ","J","e","w","s">>,
        <<"P","r","a","y","e","r"," ","o","f"," ","A","z","a","r","i","a","h">>,
        <<"A","z","a","r","i","a","h">>,
        <<"P","r"," ","A","z">>>>],
    [book |-> <<"S","u","s","a","n","n","a">>,
     abbreviations |-> <<<<"S","u","s">>>>],
    [book |-> <<"B","e","l"," ","a","n","d"," ","t","h","e"," ","D","r","a","g","o","n">>,
     abbreviations |-> <<<<"B","e","l">>>>],
    [book |-> <<"1"," ","M","a","c","c","a","b","e","e","s">>,
     abbreviations |-> <<<<"1"," ","M","a","c","c">>,
        <<"1"," ","M","a","c">>,
        <<"1","M","a","c","c","a","b","e","e","s">>,
        <<"1","M","a","c","c">>,
        <<"1","M","a","c">>,
        <<"1","M","a">>,
        <<"1","M">>,
        <<"I"," ","M","a","c","c","a","b","e","e","s">>,
        <<"I"," ","M","a","c","c">>,
        <<"I"," ","M","a","c">>,
        <<"I"," ","M","a">>,
        <<"1","s","t"," ","M","a","c","c","a","b","e","e","s">>,
        <<"F","i","r","s","t"," ","M","a","c","c","a","b","e","e","s">>>>],
    [book |-> <<"2"," ","M","a","c","c","a","b","e","e","s">>,
     abbreviations |-> <<<<"2"," ","M","a","c","c">>,
        <<"2"," ","M","a","c">>,
        <<"2","M","a","c","c","a","b","e","e","s">>,
        <<"2","M","a","c","c">>,
        <<"2","M","a","c">>,
        <<"2","M","a">>,
        <<"2","M">>,
        <<"I","I"," ","M","a","c","c","a","b","e","e","s">>,
        <<"I","I"," ","M","a","c","c">>,
        <<"I","I"," ","M","a","c">>,
        <<"I","I"," ","M","a">>,
        <<"2","n","d"," ","M","a","c","c","a","b","e","e","s">>,
        <<"S","e","c","o","n","d"," ","M","a","c","c","a","b","e","e","s">>>>],
    [book |-> <<"3"," ","M","a","c","c","a","b","e","e","s">>,
     abbreviations |-> <<<<"3"," ","M","a","c","c">>,
        <<"3"," ","M","a","c">>,
        <<"3","M","a","c","c","a","b","e","e","s">>,
        <<"3","M","a","c","c">>,
        <<"3","M","a","c">>,
        <<"3","M","a">>,
        <<"3","M">>,
        <<"I","I","I"," ","M","a","c","c","a","b","e","e","s">>,
        <<"I","I","I"," ","M","a","c","c">>,
        <<"I","I","I"," ","M","a","c">>,
        <<"I","I","I"," ","M","a">>,
        <<"3","r","d"," ","M","a","c","c","a","b","e","e","s">>,
        <<"T","h","i","r","d"," ","M","a","c","c","a","b","e","e","s">>>>],
    [book |-> <<"4"," ","M","a","c","c","a","b","e","e","s">>,
     abbreviations |-> <<<<"4"," ","M","a","c","c">>,
        <<"4"," ","M","a","c">>,
        <<"4","M","a","c","c","a","b","e","e","s">>,
        <<"4","M","a","c","c">>,
        <<"4","M","a","c">>,
        <<"4","M","a">>,
        <<"4","M">>,
        <<"I","V"," ","M","a","c","c","a","b","e","e","s">>,
        <<"I","V"," ","M","a","c","c">>,
        <<"I","V"," ","M","a","c">>,
        <<"I","V"," ","M","a">>,
        <<"4","t","h"," ","M","a","c","c","a","b","e","e","s">>,
        <<"F","o","u","r","t","h"," ","M","a","c","c","a","b","e","e","s">>>>],
    [book |-> <<"1"," ","E","s","d","r","a","s">>,
     abbreviations |-> <<<<"1"," ","E","s","d">>,
        <<"1"," ","E","s","d","r">>,
        <<"1","E","s","d","r","a","s">>,
        <<"1","E","s","d","r">>,
        <<"1","E","s","d">>,
        <<"1","E","s">>,
        <<"I"," ","E","s","d","r","a","s">>,
        <<"I"," ","E","s","d","r">>,
        <<"I"," ","E","s","d">>,
        <<"I"," ","E","s">>,
        <<"1","s","t"," ","E","s","d","r","a","s">>,
        <<"F","i","r","s","t"," ","E","s","d","r","a","s">>>>],
    [book |-> <<"2"," ","E","s","d","r","a","s">>,
     abbreviations |-> <<<<"2"," ","E","s","d">>,
        <<"2"," ","E","s","d","r">>,
        <<"2","E","s","d","r","a","s">>,
        <<"2","E","s","d","r">>,
        <<"2","E","s","d">>,
        <<"2","E","s">>,
        <<"I","I"," ","E","s","d","r","a","s">>,
        <<"I","I"," ","E","s","d","r">>,
        <<"I","I"," ","E","s","d">>,
        <<"I","I"," ","E","s">>,
        <<"2","n","d"," ","E","s","d","r","a","s">>,
        <<"S","e","c","o","n","d"," ","E","s","d","r","a","s">>>>],
    [book |-> <<"P","r","a","y","e","r"," ","o","f"," ","M","a","n","a","s","s","e","h">>,
     abbreviations |-> <<<<"P","r"," ","o","f"," ","M","a","n">>,
        <<"P","r"," ","o","f"," ","M","a","n">>,
        <<"P","M","a">>,
        <<"P","r","a","y","e","r"," ","o","f"," ","M","a","n","a","s","s","e","s">>>>],
    [book |-> <<"A","d","d","i","t","i","o","n","a","l"," ","P","s","a","l","m">>,
     abbreviations |-> <<<<"A","d","d"," ","P","s","a","l","m">>,
        <<"A","d","d"," ","P","s">>>>],
    [book |-> <<"O","d","e">>,
     abbreviations |-> <<<<"O","d","e">>>>],
    [book |-> <<"P","s","a","l","m","s"," ","o","f"," ","S","o","l","o","m","o","n">>,
     abbreviations |-> <<<<"P","s"," ","S","o","l","o","m","o","n">>,
        <<"P","s"," ","S","o","l">>,
        <<"P","s","a","l","m","s"," ","S","o","l","o","m","o","n">>,
        <<"P","s","S","o","l">>>>],
    [book |-> <<"E","p","i","s","t","l","e"," ","t","o"," ","t","h","e"," ","L","a","o","d","i","c","e","a","n","s">>,
     abbreviations |-> <<<<"E","p"," ","L","a","o">>,
        <<"E","p","i","s","t","l","e"," ","t","o"," ","L","a","o","d","i","c","e","a","n","s">>,
        <<"E","p","i","s","t","l","e"," ","L","a","o","d","i","c","e","a","n","s">>,
        <<"E","p","i","s","t"," ","L","a","o","d","i","c","e","a","n","s">>,
        <<"E","p"," ","L","a","o","d">>,
        <<"L","a","o","d","i","c","e","a","n","s">>,
        <<"L","a","o","d">>>>]
  >>

\* BibleBooks.bible_books_list: the ordered Christian-canon titles
bible_books_list ==
  <<
    <<"G","e","n","e","s","i","s">>,
    <<"E","x","o","d","u","s">>,
    <<"L","e","v","i","t","i","c","u","s">>,
    <<"N","u","m","b","e","r","s">>,
    <<"D","e","u","t","e","r","o","n","o","m","y">>,
    <<"J","o","s","h","u","a">>,
    <<"J","u","d","g","e","s">>,
    <<"R","u","t","h">>,
    <<"1"," ","S","a","m","u","e","l">>,
    <<"2"," ","S","a","m","u","e","l">>,
    <<"1"," ","K","i","n","g","s">>,
    <<"2"," ","K","i","n","g","s">>,
    <<"1"," ","C","h","r","o","n","i","c","l","e","s">>,
    <<"2"," ","C","h","r","o","n","i","c","l","e","s">>,
    <<"E","z","r","a">>,
    <<"N","e","h","e","m","i","a","h">>,
    <<"E","s","t","h","e","r">>,
    <<"J","o","b">>,
    <<"P","s","a","l","m">>,
    <<"P","r","o","v","e","r","b","s">>,
    <<"E","c","c","l","e","s","i","a","s","t","e","s">>,
    <<"S","o","n","g"," ","o","f"," ","S","o","n","g","s">>,
    <<"I","s","a","i","a","h">>,
    <<"J","e","r","e","m","i","a","h">>,
    <<"L","a","m","e","n","t","a","t","i","o","n","s">>,
    <<"E","z","e","k","i","e","l">>,
    <<"D","a","n","i","e","l">>,
    <<"H","o","s","e","a">>,
    <<"J","o","e","l">>,
    <<"A","m","o","s">>,
    <<"O","b","a","d","i","a","h">>,
    <<"J","o","n","a","h">>,
    <<"M","i","c","a","h">>,
    <<"N","a","h","u","m">>,
    <<"H","a","b","a","k","k","u","k">>,
    <<"Z","e","p","h","a","n","i","a","h">>,
    <<"H","a","g","g","a","i">>,
    <<"Z","e","c","h","a","r","i","a","h">>,
    <<"M","a","l","a","c","h","i">>,
    <<"M","a","t","t","h","e","w">>,
    <<"M","a","r","k">>,
    <<"L","u","k","e">>,
    <<"J","o","h","n">>,
    <<"A","c","t","s">>,
    <<"R","o","m","a","n","s">>,
    <<"1"," ","C","o","r","i","n","t","h","i","a","n","s">>,
    <<"2"," ","C","o","r","i","n","t","h","i","a","n","s">>,
    <<"G","a","l","a","t","i","a","n","s">>,
    <<"E","p","h","e","s","i","a","n","s">>,
    <<"P","h","i","l","i","p","p","i","a","n","s">>,
    <<"C","o","l","o","s","s","i","a","n","s">>,
    <<"1"," ","T","h","e","s","s","a","l","o","n","i","a","n","s">>,
    <<"2"," ","T","h","e","s","s","a","l","o","n","i","a","n","s">>,
    <<"1"," ","T","i","m","o","t","h","y">>,
    <<"2"," ","T","i","m","o","t","h","y">>,
    <<"T","i","t","u","s">>,
    <<"P","h","i","l","e","m","o","n">>,
    <<"H","e","b","r","e","w","s">>,
    <<"J","a","m","e","s">>,
    <<"1"," ","P","e","t","e","r">>,
    <<"2"," ","P","e","t","e","r">>,
    <<"1"," ","J","o","h","n">>,
    <<"2"," ","J","o","h","n">>,
    <<"3"," ","J","o","h","n">>,
    <<"J","u","d","e">>,
    <<"R","e","v","e","l","a","t","i","o","n">>,
    <<"T","o","b","i","t">>,
    <<"J","u","d","i","t","h">>,
    <<"G","r","e","e","k"," ","E","s","t","h","e","r">>,
    <<"W","i","s","d","o","m"," ","o","f"," ","S","o","l","o","m","o","n">>,
    <<"S","i","r","a","c","h">>,
    <<"B","a","r","u","c","h">>,
    <<"L","e","t","t","e","r"," ","o","f"," ","J","e","r","e","m","i","a","h">>,
    <<"P","r","a","y","e","r"," ","o","f"," ","A","z","a","r","i","a","h">>,
    <<"S","u","s","a","n","n","a">>,
    <<"B","e","l"," ","a","n","d"," ","t","h","e"," ","D","r","a","g","o","n">>,
    <<"1"," ","M","a","c","c","a","b","e","e","s">>,
    <<"2"," ","M","a","c","c","a","b","e","e","s">>,
    <<"1"," ","E","s","d","r","a","s">>,
    <<"P","r","a","y","e","r"," ","o","f"," ","M","a","n","a","s","s","e","h">>,
    <<"P","s","a","l","m"," ","1","5","1">>,
    <<"3"," ","M","a","c","c","a","b","e","e","s">>,
    <<"2"," ","E","s","d","r","a","s">>,
    <<"4"," ","M","a","c","c","a","b","e","e","s">>
  >>

\* BibleData.books: the same titles, as the scanner reads them
books ==
  <<
    <<"G","e","n","e","s","i","s">>,
    <<"E","x","o","d","u","s">>,
    <<"L","e","v","i","t","i","c","u","s">>,
    <<"N","u","m","b","e","r","s">>,
    <<"D","e","u","t","e","r","o","n","o","m","y">>,
    <<"J","o","s","h","u","a">>,
    <<"J","u","d","g","e","s">>,
    <<"R","u","t","h">>,
    <<"1"," ","S","a","m","u","e","l">>,
    <<"2"," ","S","a","m","u","e","l">>,
    <<"1"," ","K","i","n","g","s">>,
    <<"2"," ","K","i","n","g","s">>,
    <<"1"," ","C","h","r","o","n","i","c","l","e","s">>,
    <<"2"," ","C","h","r","o","n","i","c","l","e","s">>,
    <<"E","z","r","a">>,
    <<"N","e","h","e","m","i","a","h">>,
    <<"E","s","t","h","e","r">>,
    <<"J","o","b">>,
    <<"P","s","a","l","m">>,
    <<"P","r","o","v","e","r","b","s">>,
    <<"E","c","c","l","e","s","i","a","s","t","e","s">>,
    <<"S","o","n","g"," ","o","f"," ","S","o","n","g","s">>,
    <<"I","s","a","i","a","h">>,
    <<"J","e","r","e","m","i","a","h">>,
    <<"L","a","m","e","n","t","a","t","i","o","n","s">>,
    <<"E","z","e","k","i","e","l">>,
    <<"D","a","n","i","e","l">>,
    <<"H","o","s","e","a">>,
    <<"J","o","e","l">>,
    <<"A","m","o","s">>,
    <<"O","b","a","d","i","a","h">>,
    <<"J","o","n","a","h">>,
    <<"M","i","c","a","h">>,
    <<"N","a","h","u","m">>,
    <<"H","a","b","a","k","k","u","k">>,
    <<"Z","e","p","h","a","n","i","a","h">>,
    <<"H","a","g","g","a","i">>,
    <<"Z","e","c","h","a","r","i","a","h">>,
    <<"M","a","l","a","c","h","i">>,
    <<"M","a","t","t","h","e","w">>,
    <<"M","a","r","k">>,
    <<"L","u","k","e">>,
    <<"J","o","h","n">>,
    <<"A","c","t","s">>,
    <<"R","o","m","a","n","s">>,
    <<"1"," ","C","o","r","i","n","t","h","i","a","n","s">>,
    <<"2"," ","C","o","r","i","n","t","h","i","a","n","s">>,
    <<"G","a","l","a","t","i","a","n","s">>,
    <<"E","p","h","e","s","i","a","n","s">>,
    <<"P","h","i","l","i","p","p","i","a","n","s">>,
    <<"C","o","l","o","s","s","i","a","n","s">>,
    <<"1"," ","T","h","e","s","s","a","l","o","n","i","a","n","s">>,
    <<"2"," ","T","h","e","s","s","a","l","o","n","i","a","n","s">>,
    <<"1"," ","T","i","m","o","t","h","y">>,
    <<"2"," ","T","i","m","o","t","h","y">>,
    <<"T","i","t","u","s">>,
    <<"P","h","i","l","e","m","o","n">>,
    <<"H","e","b","r","e","w","s">>,
    <<"J","a","m","e","s">>,
    <<"1"," ","P","e","t","e","r">>,
    <<"2"," ","P","e","t","e","r">>,
    <<"1"," ","J","o","h","n">>,
    <<"2"," ","J","o","h","n">>,
    <<"3"," ","J","o","h","n">>,
    <<"J","u","d","e">>,
    <<"R","e","v","e","l","a","t","i","o","n">>,
    <<"T","o","b","i","t">>,
    <<"J","u","d","i","t","h">>,
    <<"G","r","e","e","k"," ","E","s","t","h","e","r">>,
    <<"W","i","s","d","o","m"," ","o","f"," ","S","o","l","o","m","o","n">>,
    <<"S","i","r","a","c","h">>,
    <<"B","a","r","u","c","h">>,
    <<"L","e","t","t","e","r"," ","o","f"," ","J","e","r","e","m","i","a","h">>,
    <<"P","r","a","y","e","r"," ","o","f"," ","A","z","a","r","i","a","h">>,
    <<"S","u","s","a","n","n","a">>,
    <<"B","e","l"," ","a","n","d"," ","t","h","e"," ","D","r","a","g","o","n">>,
    <<"1"," ","M","a","c","c","a","b","e","e","s">>,
    <<"2"," ","M","a","c","c","a","b","e","e","s">>,
    <<"1"," ","E","s","d","r","a","s">>,
    <<"P","r","a","y","e","r"," ","o","f"," ","M","a","n","a","s","s","e","h">>,
    <<"P","s","a","l","m"," ","1","5","1">>,
    <<"3"," ","M","a","c","c","a","b","e","e","s">>,
    <<"2"," ","E","s","d","r","a","s">>,
    <<"4"," ","M","a","c","c","a","b","e","e","s">>
  >>

----------------------------------------------------------------------------
(* convert_version of BibleBooks and of BibleData                           *)

\* the versions dict, in insertion order; helpers.py and biblegateway.py
\* declare the same dict. "U+2019" stands for the one character of that
\* code point (a right single quotation mark), which lower() leaves alone
versions ==
  <<
    [short |-> <<"K","J","2","1">>,
     long |-> <<"2","1","s","t"," ","C","e","n","t","u","r","y"," ","K","i","n","g"," ","J","a","m","e","s"," ","V","e","r","s","i","o","n"," ","(","K","J","2","1",")">>],
    [short |-> <<"A","S","V">>,
     long |-> <<"A","m","e","r","i","c","a","n"," ","S","t","a","n","d","a","r","d"," ","V","e","r","s","i","o","n"," ","(","A","S","V",")">>],
    [short |-> <<"A","M","P">>,
     long |-> <<"A","m","p","l","i","f","i","e","d"," ","B","i","b","l","e"," ","(","A","M","P",")">>],
    [short |-> <<"A","M","P","C">>,
     long |-> <<"A","m","p","l","i","f","i","e","d"," ","B","i","b","l","e",","," ","C","l","a","s","s","i","c"," ","E","d","i","t","i","o","n"," ","(","A","M","P","C",")">>],
    [short |-> <<"B","R","G">>,
     long |-> <<"B","R","G"," ","B","i","b","l","e"," ","(","B","R","G",")">>],
    [short |-> <<"C","S","B">>,
     long |-> <<"C","h","r","i","s","t","i","a","n"," ","S","t","a","n","d","a","r","d"," ","B","i","b","l","e"," ","(","C","S","B",")">>],
    [short |-> <<"C","E","B">>,
     long |-> <<"C","o","m","m","o","n"," ","E","n","g","l","i","s","h"," ","B","i","b","l","e"," ","(","C","E","B",")">>],
    [short |-> <<"C","J","B">>,
     long |-> <<"C","o","m","p","l","e","t","e"," ","J","e","w","i","s","h"," ","B","i","b","l","e"," ","(","C","J","B",")">>],
    [short |-> <<"C","E","V">>,
     long |-> <<"C","o","n","t","e","m","p","o","r","a","r","y"," ","E","n","g","l","i","s","h"," ","V","e","r","s","i","o","n"," ","(","C","E","V",")">>],
    [short |-> <<"D","A","R","B","Y">>,
     long |-> <<"D","a","r","b","y"," ","T","r","a","n","s","l","a","t","i","o","n"," ","(","D","A","R","B","Y",")">>],
    [short |-> <<"D","L","N","T">>,
     long |-> <<"D","i","s","c","i","p","l","e","s","U+2019"," ","L","i","t","e","r","a","l"," ","N","e","w"," ","T","e","s","t","a","m","e","n","t"," ","(","D","L","N","T",")">>],
    [short |-> <<"D","R","A">>,
     long |-> <<"D","o","u","a","y","-","R","h","e","i","m","s"," ","1","8","9","9"," ","A","m","e","r","i","c","a","n"," ","E","d","i","t","i","o","n"," ","(","D","R","A",")">>],
    [short |-> <<"E","R","V">>,
     long |-> <<"E","a","s","y","-","t","o","-","R","e","a","d"," ","V","e","r","s","i","o","n"," ","(","E","R","V",")">>],
    [short |-> <<"E","A","S","Y">>,
     long |-> <<"E","a","s","y","E","n","g","l","i","s","h"," ","B","i","b","l","e"," ","(","E","A","S","Y",")">>],
    [short |-> <<"E","H","V">>,
     long |-> <<"E","v","a","n","g","e","l","i","c","a","l"," ","H","e","r","i","t","a","g","e"," ","V","e","r","s","i","o","n"," ","(","E","H","V",")">>],
    [short |-> <<"E","S","V">>,
     long |-> <<"E","n","g","l","i","s","h"," ","S","t","a","n","d","a","r","d"," ","V","e","r","s","i","o","n"," ","(","E","S","V",")">>],
    [short |-> <<"E","S","V","U","K">>,
     long |-> <<"E","n","g","l","i","s","h"," ","S","t","a","n","d","a","r","d"," ","V","e","r","s","i","o","n"," ","A","n","g","l","i","c","i","s","e","d"," ","(","E","S","V","U","K",")">>],
    [short |-> <<"E","X","B">>,
     long |-> <<"E","x","p","a","n","d","e","d"," ","B","i","b","l","e"," ","(","E","X","B",")">>],
    [short |-> <<"G","N","V">>,
     long |-> <<"1","5","9","9"," ","G","e","n","e","v","a"," ","B","i","b","l","e"," ","(","G","N","V",")">>],
    [short |-> <<"G","W">>,
     long |-> <<"G","O","D","U+2019","S"," ","W","O","R","D"," ","T","r","a","n","s","l","a","t","i","o","n"," ","(","G","W",")">>],
    [short |-> <<"G","N","T">>,
     long |-> <<"G","o","o","d"," ","N","e","w","s"," ","T","r","a","n","s","l","a","t","i","o","n"," ","(","G","N","T",")">>],
    [short |-> <<"H","C","S","B">>,
     long |-> <<"H","o","l","m","a","n"," ","C","h","r","i","s","t","i","a","n"," ","S","t","a","n","d","a","r","d"," ","B","i","b","l","e"," ","(","H","C","S","B",")">>],
    [short |-> <<"I","C","B">>,
     long |-> <<"I","n","t","e","r","n","a","t","i","o","n","a","l"," ","C","h","i","l","d","r","e","n","U+2019","s"," ","B","i","b","l","e"," ","(","I","C","B",")">>],
    [short |-> <<"I","S","V">>,
     long |-> <<"I","n","t","e","r","n","a","t","i","o","n","a","l"," ","S","t","a","n","d","a","r","d"," ","V","e","r","s","i","o","n"," ","(","I","S","V",")">>],
    [short |-> <<"P","H","I","L","L","I","P","S">>,
     long |-> <<"J",".","B","."," ","P","h","i","l","l","i","p","s"," ","N","e","w"," ","T","e","s","t","a","m","e","n","t"," ","(","P","H","I","L","L","I","P","S",")">>],
    [short |-> <<"J","U","B">>,
     long |-> <<"J","u","b","i","l","e","e"," ","B","i","b","l","e"," ","2","0","0","0"," ","(","J","U","B",")">>],
    [short |-> <<"K","J","V">>,
     long |-> <<"K","i","n","g"," ","J","a","m","e","s"," ","V","e","r","s","i","o","n"," ","(","K","J","V",")">>],
    [short |-> <<"A","K","J","V">>,
     long |-> <<"A","u","t","h","o","r","i","z","e","d"," ","(","K","i","n","g"," ","J","a","m","e","s",")"," ","V","e","r","s","i","o","n"," ","(","A","K","J","V",")">>],
    [short |-> <<"L","S","B">>,
     long |-> <<"L","e","g","a","c","y"," ","S","t","a","n","d","a","r","d"," ","B","i","b","l","e"," ","(","L","S","B",")">>],
    [short |-> <<"L","E","B">>,
     long |-> <<"L","e","x","h","a","m"," ","E","n","g","l","i","s","h"," ","B","i","b","l","e"," ","(","L","E","B",")">>],
    [short |-> <<"T","L","B">>,
     long |-> <<"L","i","v","i","n","g"," ","B","i","b","l","e"," ","(","T","L","B",")">>],
    [short |-> <<"M","S","G">>,
     long |-> <<"T","h","e"," ","M","e","s","s","a","g","e"," ","(","M","S","G",")">>],
    [short |-> <<"M","E","V">>,
     long |-> <<"M","o","d","e","r","n"," ","E","n","g","l","i","s","h"," ","V","e","r","s","i","o","n"," ","(","M","E","V",")">>],
    [short |-> <<"M","O","U","N","C","E">>,
     long |-> <<"M","o","u","n","c","e"," ","R","e","v","e","r","s","e"," ","I","n","t","e","r","l","i","n","e","a","r"," ","N","e","w"," ","T","e","s","t","a","m","e","n","t"," ","(","M","O","U","N","C","E",")">>],
    [short |-> <<"N","O","G">>,
     long |-> <<"N","a","m","e","s"," ","o","f"," ","G","o","d"," ","B","i","b","l","e"," ","(","N","O","G",")">>],
    [short |-> <<"N","A","B","R","E">>,
     long |-> <<"N","e","w"," ","A","m","e","r","i","c","a","n"," ","B","i","b","l","e"," ","(","R","e","v","i","s","e","d"," ","E","d","i","t","i","o","n",")"," ","(","N","A","B","R","E",")">>],
    [short |-> <<"N","A","S","B">>,
     long |-> <<"N","e","w"," ","A","m","e","r","i","c","a","n"," ","S","t","a","n","d","a","r","d"," ","B","i","b","l","e"," ","(","N","A","S","B",")">>],
    [short |-> <<"N","A","S","B","1","9","9","5">>,
     long |-> <<"N","e","w"," ","A","m","e","r","i","c","a","n"," ","S","t","a","n","d","a","r","d"," ","B","i","b","l","e"," ","1","9","9","5"," ","(","N","A","S","B","1","9","9","5",")">>],
    [short |-> <<"N","C","B">>,
     long |-> <<"N","e","w"," ","C","a","t","h","o","l","i","c"," ","B","i","b","l","e"," ","(","N","C","B",")">>],
    [short |-> <<"N","C","V">>,
     long |-> <<"N","e","w"," ","C","e","n","t","u","r","y"," ","V","e","r","s","i","o","n"," ","(","N","C","V",")">>],
    [short |-> <<"N","E","T">>,
     long |-> <<"N","e","w"," ","E","n","g","l","i","s","h"," ","T","r","a","n","s","l","a","t","i","o","n"," ","(","N","E","T",")">>],
    [short |-> <<"N","I","R","V">>,
     long |-> <<"N","e","w"," ","I","n","t","e","r","n","a","t","i","o","n","a","l"," ","R","e","a","d","e","r","'","s"," ","V","e","r","s","i","o","n"," ","(","N","I","R","V",")">>],
    [short |-> <<"N","I","V">>,
     long |-> <<"N","e","w"," ","I","n","t","e","r","n","a","t","i","o","n","a","l"," ","V","e","r","s","i","o","n"," ","(","N","I","V",")">>],
    [short |-> <<"N","I","V","U","K">>,
     long |-> <<"N","e","w"," ","I","n","t","e","r","n","a","t","i","o","n","a","l"," ","V","e","r","s","i","o","n"," ","-"," ","U","K"," ","(","N","I","V","U","K",")">>],
    [short |-> <<"N","K","J","V">>,
     long |-> <<"N","e","w"," ","K","i","n","g"," ","J","a","m","e","s"," ","V","e","r","s","i","o","n"," ","(","N","K","J","V",")">>],
    [short |-> <<"N","L","V">>,
     long |-> <<"N","e","w"," ","L","i","f","e"," ","V","e","r","s","i","o","n"," ","(","N","L","V",")">>],
    [short |-> <<"N","L","T">>,
     long |-> <<"N","e","w"," ","L","i","v","i","n","g"," ","T","r","a","n","s","l","a","t","i","o","n"," ","(","N","L","T",")">>],
    [short |-> <<"N","M","B">>,
     long |-> <<"N","e","w"," ","M","a","t","t","h","e","w"," ","B","i","b","l","e"," ","(","N","M","B",")">>],
    [short |-> <<"N","R","S","V","A">>,
     long |-> <<"N","e","w"," ","R","e","v","i","s","e","d"," ","S","t","a","n","d","a","r","d"," ","V","e","r","s","i","o","n",","," ","A","n","g","l","i","c","i","s","e","d"," ","(","N","R","S","V","A",")">>],
    [short |-> <<"N","R","S","V","A","C","E">>,
     long |-> <<"N","e","w"," ","R","e","v","i","s","e","d"," ","S","t","a","n","d","a","r","d"," ","V","e","r","s","i","o","n",","," ","A","n","g","l","i","c","i","s","e","d"," ","C","a","t","h","o","l","i","c"," ","E","d","i","t","i","o","n"," ","(","N","R","S","V","A","C","E",")">>],
    [short |-> <<"N","R","S","V","C","E">>,
     long |-> <<"N","e","w"," ","R","e","v","i","s","e","d"," ","S","t","a","n","d","a","r","d"," ","V","e","r","s","i","o","n"," ","C","a","t","h","o","l","i","c"," ","E","d","i","t","i","o","n"," ","(","N","R","S","V","C","E",")">>],
    [short |-> <<"N","R","S","V","U","E">>,
     long |-> <<"N","e","w"," ","R","e","v","i","s","e","d"," ","S","t","a","n","d","a","r","d"," ","V","e","r","s","i","o","n"," ","U","p","d","a","t","e","d"," ","E","d","i","t","i","o","n"," ","(","N","R","S","V","U","E",")">>],
    [short |-> <<"N","T","F","E">>,
     long |-> <<"N","e","w"," ","T","e","s","t","a","m","e","n","t"," ","f","o","r"," ","E","v","e","r","y","o","n","e"," ","(","N","T","F","E",")">>],
    [short |-> <<"O","J","B">>,
     long |-> <<"O","r","t","h","o","d","o","x"," ","J","e","w","i","s","h"," ","B","i","b","l","e"," ","(","O","J","B",")">>],
    [short |-> <<"R","G","T">>,
     long |-> <<"R","e","v","i","s","e","d"," ","G","e","n","e","v","a"," ","T","r","a","n","s","l","a","t","i","o","n"," ","(","R","G","T",")">>],
    [short |-> <<"R","S","V">>,
     long |-> <<"R","e","v","i","s","e","d"," ","S","t","a","n","d","a","r","d"," ","V","e","r","s","i","o","n"," ","(","R","S","V",")">>],
    [short |-> <<"R","S","V","C","E">>,
     long |-> <<"R","e","v","i","s","e","d"," ","S","t","a","n","d","a","r","d"," ","V","e","r","s","i","o","n"," ","C","a","t","h","o","l","i","c"," ","E","d","i","t","i","o","n"," ","(","R","S","V","C","E",")">>],
    [short |-> <<"T","L","V">>,
     long |-> <<"T","r","e","e"," ","o","f"," ","L","i","f","e"," ","V","e","r","s","i","o","n"," ","(","T","L","V",")">>],
    [short |-> <<"V","O","I","C","E">>,
     long |-> <<"T","h","e"," ","V","o","i","c","e"," ","(","V","O","I","C","E",")">>],
    [short |-> <<"W","E","B">>,
     long |-> <<"W","o","r","l","d"," ","E","n","g","l","i","s","h"," ","B","i","b","l","e"," ","(","W","E","B",")">>],
    [short |-> <<"W","E">>,
     long |-> <<"W","o","r","l","d","w","i","d","e"," ","E","n","g","l","i","s","h"," ","(","N","e","w"," ","T","e","s","t","a","m","e","n","t",")"," ","(","W","E",")">>],
    [short |-> <<"W","Y","C">>,
     long |-> <<"W","y","c","l","i","f","f","e"," ","B","i","b","l","e"," ","(","W","Y","C",")">>],
    [short |-> <<"Y","L","T">>,
     long |-> <<"Y","o","u","n","g","'","s"," ","L","i","t","e","r","a","l"," ","T","r","a","n","s","l","a","t","i","o","n"," ","(","Y","L","T",")">>]
  >>

\* long.lower(), for every entry of the dict
LowerLongs == [i \in 1..Len(versions) |-> Lower(versions[i].long)]

\* the body both convert_version methods share, on a versions dict they can
\* read: the long name of a short code; else the short code of the first
\* long name that equals version ignoring case; else None
lookup_version(v) ==
    LET shorts  == {i \in 1..Len(versions) : versions[i].short = v}
        lowered == Lower(v)
        longs   == {i \in 1..Len(versions) : LowerLongs[i] = lowered}
    IN  IF shorts # {} THEN versions[CHOOSE i \in shorts : TRUE].long
        ELSE IF longs # {} THEN versions[CHOOSE i \in longs : \A k \in longs : i <= k].short
        ELSE None

\* the data attributes of the class object BibleBooks once @dataclass has
\* processed it: versions, declared with field(default_factory=...), is a
\* field of the instances and is deleted from the class
class_attributes == {"bible_books", "bible_books_list"}

\* the outcome of a call that raises AttributeError
AttributeError == <<"<AttributeError>">>

\* BibleBooks.convert_version, a classmethod: it reads cls.versions
convert_version(v) ==
    IF "versions" \in class_attributes THEN lookup_version(v) ELSE AttributeError

\* BibleData.convert_version on an instance BibleData(): it reads
\* self.versions, which the generated __init__ has set
BibleData_convert_version(v) == lookup_version(v)

----------------------------------------------------------------------------
(* BibleBooks.get_book_name                                                 *)

\* [abbr.lower() for abbr in book.get("abbreviations", [])], for every entry of the table
LowerAbbreviations ==
    [i \in 1..Len(bible_books) |->
        {Lower(bible_books[i].abbreviations[k]) : k \in 1..Len(bible_books[i].abbreviations)}]

\* the indices of the table entries one of whose aliases equals reference, ignoring case
MatchingEntries(reference) ==
    LET lowered == Lower(reference)
    IN  {i \in 1..Len(bible_books) : lowered \in LowerAbbreviations[i]}

\* a lookup that compares the aliases as written, without lower()
get_book_name_case_sensitive(reference) ==
    LET hits == {i \in 1..Len(bible_books) :
                    \E k \in 1..Len(bible_books[i].abbreviations) :
                        bible_books[i].abbreviations[k] = reference}
    IN  IF hits = {} THEN reference
        ELSE Strip(bible_books[CHOOSE i \in hits : \A k \in hits : i <= k].book)

\* a lookup that hands back the lowered token when no alias matches
get_book_name_lowered(reference) ==
    LET hits == MatchingEntries(reference)
    IN  IF hits = {} THEN Lower(reference)
        ELSE Strip(bible_books[CHOOSE i \in hits : \A k \in hits : i <= k].book)

\* a lookup that answers only when exactly one entry of the table matches
get_book_name_single_hit(reference) ==
    LET hits == MatchingEntries(reference)
    IN  IF Cardinality(hits) # 1 THEN reference
        ELSE Strip(bible_books[CHOOSE i \in hits : TRUE].book)

\* the first entry in table order wins; no entry: the reference itself
get_book_name(reference) ==
    LET hits == MatchingEntries(reference)
    IN  IF hits = {} THEN reference
        ELSE Strip(bible_books[CHOOSE i \in hits : \A k \in hits : i <= k].book)

\* BibleBooks.get_books: list(cls.bible_books_list)
get_books == bible_books_list

----------------------------------------------------------------------------
(* BibleBooks.extract_book_reference                                        *)

\* (?:\s[A-Za-z]+)* starting at i: where the greedy repetition stops
RECURSIVE MoreWords(_, _)
MoreWords(s, i) ==
    IF At(s, i, SpaceChars) /\ At(s, i + 1, AlphaChars)
    THEN MoreWords(s, SkipWhile(s, i + 1, AlphaChars))
    ELSE i

\* the reference pattern with [A-Za-z]* for [A-Za-z]+: it matches every text
MatchReference_any_token(s) ==
    LET d1   == SkipWhile(s, 1, DigitChars)
        s1   == SkipWhile(s, d1, SpaceChars)
        a1   == SkipWhile(s, s1, AlphaChars)
        g1e  == MoreWords(s, a1)
        ws   == SkipWhile(s, g1e, SpaceChars)
        hasC == ws > g1e /\ At(s, ws, DigitChars)
        ce   == SkipWhile(s, ws, DigitChars)
        hasS == hasC /\ At(s, ce, {"a", "b"})
        se   == IF hasS THEN ce + 1 ELSE ce
        hasV == hasC /\ At(s, se, {":", "."}) /\ At(s, se + 1, DigitChars)
        ve   == SkipWhile(s, se + 1, DigitChars)
        hasR == hasV /\ At(s, ve, {"-"}) /\ At(s, ve + 1, DigitChars)
        re   == IF hasR THEN SkipWhile(s, ve + 1, DigitChars) ELSE ve
    IN  [matched |-> TRUE,
         g1 |-> SubSeq(s, 1, g1e - 1),
         g2 |-> IF hasC THEN SubSeq(s, ws, ce - 1) ELSE None,
         g3 |-> IF hasS THEN <<s[ce]>> ELSE None,
         g4 |-> IF hasV THEN SubSeq(s, se + 1, re - 1) ELSE None]

\* re.match of the reference pattern: the spans of its four groups.
\* [matched, g1, g2, g3, g4], each group a string or None
MatchReference(s) ==
    LET d1   == SkipWhile(s, 1, DigitChars)          \* \d*
        s1   == SkipWhile(s, d1, SpaceChars)         \* \s*
        a1   == SkipWhile(s, s1, AlphaChars)         \* [A-Za-z]+
        g1e  == MoreWords(s, a1)                     \* (?:\s[A-Za-z]+)*
        ws   == SkipWhile(s, g1e, SpaceChars)        \* \s+
        hasC == ws > g1e /\ At(s, ws, DigitChars)
        ce   == SkipWhile(s, ws, DigitChars)         \* (\d+)
        hasS == hasC /\ At(s, ce, {"a", "b"})        \* ([ab])?
        se   == IF hasS THEN ce + 1 ELSE ce
        hasV == hasC /\ At(s, se, {":", "."}) /\ At(s, se + 1, DigitChars)
        ve   == SkipWhile(s, se + 1, DigitChars)     \* [:.](\d+
        hasR == hasV /\ At(s, ve, {"-"}) /\ At(s, ve + 1, DigitChars)
        re   == IF hasR THEN SkipWhile(s, ve + 1, DigitChars) ELSE ve   \* (?:-\d+)?)
    IN  IF a1 = s1
        THEN [matched |-> FALSE, g1 |-> None, g2 |-> None, g3 |-> None, g4 |-> None]
        ELSE [matched |-> TRUE,
              g1 |-> SubSeq(s, 1, g1e - 1),
              g2 |-> IF hasC THEN SubSeq(s, ws, ce - 1) ELSE None,
              g3 |-> IF hasS THEN <<s[ce]>> ELSE None,
              g4 |-> IF hasV THEN SubSeq(s, se + 1, re - 1) ELSE None]

\* "-" in verse
HasDash(verse) == \E i \in 1..Len(verse) : verse[i] = "-"

\* start_verse, end_verse = map(int, verse.split("-"))
DashAt(verse) == CHOOSE i \in 1..Len(verse) : verse[i] = "-"
StartVerse(verse) == ToInt(SubSeq(verse, 1, DashAt(verse) - 1))
EndVerse(verse) == ToInt(SubSeq(verse, DashAt(verse) + 1, Len(verse)))

\* the width above which a verse range is a large reference
LargeWidth == 10

\* a width test that is off by one
is_large_inclusive(verse) ==
    IF ~Truthy(verse) THEN TRUE
    ELSE IF HasDash(verse) THEN EndVerse(verse) - StartVerse(verse) >= LargeWidth
    ELSE FALSE

\* if not verse: ... elif "-" in verse: ... if end_verse - start_verse > 10
is_large(verse) ==
    IF ~Truthy(verse) THEN TRUE
    ELSE IF HasDash(verse) THEN EndVerse(verse) - StartVerse(verse) > LargeWidth
    ELSE FALSE

\* a validity test that forgets the chapter
is_valid_book_only(book, chapter) == Truthy(book)

\* if book and chapter: valid = True
is_valid(book, chapter) == Truthy(book) /\ Truthy(chapter)

\* valid as left by the function: False unless the pattern matched
valid_of(matched, book, chapter) == IF matched THEN is_valid(book, chapter) ELSE FALSE

\* a large_reference computed whether or not the pattern matched
large_reference_unguarded(matched, verse) == is_large(verse)

\* large_reference as left by the function: False unless the pattern matched
large_reference_of(matched, verse) == IF matched THEN is_large(verse) ELSE FALSE

\* a reassembly that writes the verse before the side letter
format_reference_verse_first(book, chapter, side, verse) ==
    Str(book)
    \o (IF Truthy(chapter) THEN <<" ">> \o chapter ELSE <<>>)
    \o (IF Truthy(verse) THEN <<":">> \o verse ELSE <<>>)
    \o (IF Truthy(side) THEN side ELSE <<>>)

\* formatted_reference = f"{book}" (+ f" {chapter}") (+ f"{side}") (+ f":{verse}")
format_reference(book, chapter, side, verse) ==
    Str(book)
    \o (IF Truthy(chapter) THEN <<" ">> \o chapter ELSE <<>>)
    \o (IF Truthy(side) THEN side ELSE <<>>)
    \o (IF Truthy(verse) THEN <<":">> \o verse ELSE <<>>)

extract_book_reference(s) ==
    LET m       == MatchReference(s)
        book    == IF m.matched THEN get_book_name(Strip(m.g1)) ELSE None
        chapter == m.g2
        side    == m.g3
        verse   == m.g4
    IN  [book |-> book, chapter |-> chapter, verse |-> verse, side |-> side,
         reference |-> format_reference(book, chapter, side, verse),
         valid |-> valid_of(m.matched, book, chapter),
         large_reference |-> large_reference_of(m.matched, verse)]

----------------------------------------------------------------------------
(* Inputs of the extractor.                                                 *)

\* longest arbitrary input text
MaxLen == 3

\* largest verse number written in an input
MaxVerse == 28

\* the characters arbitrary input texts are written in
InputChars == {"G", "n", " ", "1", ":", "-", "a"}

ShortTexts == UNION {[1..n -> InputChars] : n \in 0..MaxLen}

\* every alias of the table, as written, in upper case and in lower case
AliasTokens ==
    UNION {UNION {{bible_books[i].abbreviations[k],
                   Upper(bible_books[i].abbreviations[k]),
                   Lower(bible_books[i].abbreviations[k])}
                  : k \in 1..Len(bible_books[i].abbreviations)}
           : i \in 1..Len(bible_books)}

\* every canonical title of the table
TitleTokens == {bible_books[i].book : i \in 1..Len(bible_books)}

\* every title of the sequence get_books returns
ListTokens == {get_books[i] : i \in 1..Len(get_books)}

\* tokens no alias matches: a second-canon title, and a title that is no alias
UnknownTokens ==
    {<<"F","o","o">>, <<"B","e","r","a","k","h","o","t">>,
     <<"G","e","n","e","s","i","s">>, <<"1","1"," ","G","e","n">>}

SampleTokens ==
    {<<"J","o","h","n">>, <<"j","O","h","N">>, <<"P","s","a","l","m">>,
     <<"1"," ","J","o","h","n">>, <<" "," ","G","e","n">>,
     <<"S","o","n","g"," ","o","f"," ","S","o","n","g","s">>}
    \cup UnknownTokens

VerseStarts == {1, 5, 16}

\* chapter[side][sep verse[-end]] tails, written out as text
Tails ==
    {<<>>, <<" ">>, <<" ","2","3">>, <<" ","2","b">>, <<" ","0">>, <<"\t","3",":","1","6">>,
     <<" ","3",":">>, <<" ","3","-","5">>, <<":","3">>, <<"3",":","1","6">>,
     <<" ","3",":","1","6"," ","K","J","V">>}
    \cup {<<" ">> \o ToStr(3) \o side \o sep \o ToStr(v)
            : side \in {<<>>, <<"a">>}, sep \in {<<":">>, <<".">>}, v \in VerseStarts}
    \cup {<<" ">> \o ToStr(23) \o <<":">> \o ToStr(v) \o <<"-">> \o ToStr(e)
            : v \in VerseStarts, e \in 1..MaxVerse}

\* the texts the documentation gives as examples
JOHN_3_16 == <<"J","o","h","n"," ","3",":","1","6">>
JOHN == <<"J","o","h","n">>
GEN_UPPER == <<"G","E","N"," ","1",":","1">>
GEN_LOWER == <<"g","e","n"," ","1",":","1">>
PSALM_23 == <<"P","s","a","l","m"," ","2","3">>
PSALM_23_1_5 == <<"P","s","a","l","m"," ","2","3",":","1","-","5">>
PSALM_23_1_15 == <<"P","s","a","l","m"," ","2","3",":","1","-","1","5">>
PSALM_23_1_11 == <<"P","s","a","l","m"," ","2","3",":","1","-","1","1">>
PSALM_23_1 == <<"P","s","a","l","m"," ","2","3",":","1">>
FOO_3_16 == <<"F","o","o"," ","3",":","1","6">>
ECCLUS_3_16 == <<"E","c","c","l","u","s"," ","3",":","1","6">>
GENESIS == <<"G","e","n","e","s","i","s">>
BARE_3_16 == <<"3",":","1","6">>
JOHN_3A_DOT_16 == <<"J","o","h","n"," ","3","a",".","1","6">>

Examples ==
    {JOHN_3_16, JOHN, GEN_UPPER, GEN_LOWER, PSALM_23, PSALM_23_1_5, PSALM_23_1_15,
     PSALM_23_1_11, PSALM_23_1, FOO_3_16, ECCLUS_3_16, BARE_3_16, JOHN_3A_DOT_16}

Inputs ==
    ShortTexts \cup Examples
    \cup {t \o <<" ","3",":","1","6">> : t \in AliasTokens \cup TitleTokens \cup ListTokens}
    \cup {t \o tail : t \in SampleTokens, tail \in Tails}

----------------------------------------------------------------------------
(* The extractor as a state machine: a text is given, parsed, and the       *)
(* reference string of the result is parsed again.                          *)

NoResult ==
    [book |-> None, chapter |-> None, verse |-> None, side |-> None,
     reference |-> None, valid |-> FALSE, large_reference |-> FALSE]

\* the extractor before any call
ExtractIdle == user_input = <<>> /\ parsed = NoResult /\ first = NoResult

\* the ranker before any call
RankIdle ==
    /\ data_list = <<>> /\ target_values = <<>> /\ similarity = <<>> /\ matches = <<>>
    /\ params = <<>>

\* convert_version before any call
ConvertIdle ==
    receiver = "" /\ version = <<>> /\ converted = None /\ converted_back = None

\* no concurrent calls
ConcurrentIdle == pc = <<>> /\ call_args = <<>> /\ frames = <<>> /\ results = <<>>

\* fetch_sefaria_versions before any call
BatchIdle ==
    /\ titles_arg = <<>> /\ max_threads = 0 /\ futures = <<>> /\ count = 0
    /\ versions_list = <<>> /\ fetched_versions = <<>> /\ fv_pc = "idle"

\* create_paginated_embeds before any call
PageIdle ==
    /\ embeds = <<>> /\ header_embed = <<>> /\ footer_embed = <<>> /\ embeds_per_page = 0
    /\ paginated_embeds = <<>>

\* to_discord_embed before any call
EmbedIdle == embed_data = <<>> /\ source_file = ""

\* on_command_error before any event
HandlerIdle == ctx_message = <<>> /\ parse_calls = <<>>

\* search_transcripts before any call
SearchIdle ==
    query = <<>> /\ page = 0 /\ all_results = <<>> /\ requested = <<>> /\ answers = <<>>

\* the other components before any call
ServiceIdle ==
    ConcurrentIdle /\ BatchIdle /\ PageIdle /\ EmbedIdle /\ HandlerIdle /\ SearchIdle
BesideConcurrentIdle ==
    BatchIdle /\ PageIdle /\ EmbedIdle /\ HandlerIdle /\ SearchIdle
BesideBatchIdle ==
    ConcurrentIdle /\ PageIdle /\ EmbedIdle /\ HandlerIdle /\ SearchIdle
BesidePageIdle ==
    ConcurrentIdle /\ BatchIdle /\ EmbedIdle /\ HandlerIdle /\ SearchIdle
BesideEmbedIdle ==
    ConcurrentIdle /\ BatchIdle /\ PageIdle /\ HandlerIdle /\ SearchIdle
BesideHandlerIdle ==
    ConcurrentIdle /\ BatchIdle /\ PageIdle /\ EmbedIdle /\ SearchIdle
BesideSearchIdle ==
    ConcurrentIdle /\ BatchIdle /\ PageIdle /\ EmbedIdle /\ HandlerIdle

\* the scanner before it is constructed
ScanIdle ==
    /\ response = [status_code |-> 0, json |-> <<>>]
    /\ sefaria_index = <<>> /\ christian_titles = <<>> /\ jewish_titles = <<>>
    /\ message = <<>> /\ combined_matches = <<>> /\ dispatched = <<>>

InitExtract ==
    /\ op = "input"
    /\ user_input \in Inputs
    /\ parsed = NoResult
    /\ first = NoResult
    /\ RankIdle
    /\ ScanIdle
    /\ ConvertIdle
    /\ ServiceIdle

\* parsed = BibleBooks.extract_book_reference(user_input)
Extract ==
    /\ op = "input"
    /\ parsed' = extract_book_reference(user_input)
    /\ op' = "parsed"
    /\ UNCHANGED <<user_input, first, rank_vars, scan_vars, convert_vars, service_vars>>

\* BibleBooks.extract_book_reference(parsed["reference"])
Reparse ==
    /\ op = "parsed"
    /\ first' = parsed
    /\ user_input' = parsed.reference
    /\ parsed' = extract_book_reference(parsed.reference)
    /\ op' = "reparsed"
    /\ UNCHANGED <<rank_vars, scan_vars, convert_vars, service_vars>>

NextExtract == Extract \/ Reparse

SpecExtract == InitExtract /\ [][NextExtract]_vars

----------------------------------------------------------------------------
(* Properties of the extractor, checked under SpecExtract.                  *)

\* a result has been returned for user_input
Returned == op \in {"parsed", "reparsed"}

\* the structural match of the text the result was computed from
Matched == MatchReference(user_input).matched

\* the book span the pattern captured, trimmed
Token == Strip(MatchReference(user_input).g1)

\* every (lowered alias, canonical title) pair of the table
AliasPairs ==
    UNION {{<<Lower(bible_books[i].abbreviations[k]), bible_books[i].book>>
              : k \in 1..Len(bible_books[i].abbreviations)}
           : i \in 1..Len(bible_books)}

LoweredAliases == {p[1] : p \in AliasPairs}

\* C1: valid is true exactly when the match produced a non-empty book and a
\* chapter was matched; "John 3:16" is valid and the book-only "John" is not.
C1_ValidIffBookAndChapter ==
    Returned =>
        /\ parsed.valid <=>
              (Matched /\ parsed.book # None /\ parsed.book # <<>> /\ parsed.chapter # None)
        /\ user_input = JOHN_3_16 => parsed.valid
        /\ user_input = JOHN => ~parsed.valid

C1_Witness ==
    /\ op = "parsed" /\ user_input = JOHN_3_16
    /\ parsed.valid /\ parsed.chapter = <<"3">>

\* C2 as stated: a book token that matches no alias comes back verbatim as
\* the book, with valid = False, whether or not a chapter and verse follow.
C2_UnresolvedIsInvalid ==
    (Returned /\ Matched /\ Lower(Token) \notin LoweredAliases) =>
        parsed.book = Token /\ ~parsed.valid

\* C2 amended: a book token that matches no alias comes back verbatim as the
\* book; valid is False when no chapter follows it and True when one does.
C2_UnresolvedKeepsToken ==
    (Returned /\ Matched /\ Lower(Token) \notin LoweredAliases) =>
        parsed.book = Token /\ (parsed.valid <=> parsed.chapter # None)

C2_Witness ==
    /\ op = "parsed" /\ user_input = FOO_3_16
    /\ parsed.book = <<"F","o","o">> /\ parsed.valid

\* C3: with a structural match, large_reference is true iff no verse was
\* matched or the verse is a range s-e with e - s > 10.
C3_LargeIffNoVerseOrWideRange ==
    (Returned /\ Matched) =>
        /\ parsed.large_reference <=>
              \/ parsed.verse = None
              \/ /\ HasDash(parsed.verse)
                 /\ EndVerse(parsed.verse) - StartVerse(parsed.verse) > 10
        /\ user_input = PSALM_23 => parsed.large_reference
        /\ user_input = PSALM_23_1_5 => ~parsed.large_reference
        /\ user_input = PSALM_23_1_15 => parsed.large_reference
        /\ user_input = PSALM_23_1_11 => ~parsed.large_reference
        /\ user_input = PSALM_23_1 => ~parsed.large_reference
        /\ \A v \in VerseStarts, e \in 1..MaxVerse :
              user_input = <<"J","o","h","n"," ","2","3",":">> \o ToStr(v) \o <<"-">> \o ToStr(e)
                  => (parsed.large_reference <=> e - v > 10)

C3_Witness ==
    /\ op = "parsed" /\ user_input = PSALM_23_1_11
    /\ parsed.verse = <<"1","-","1","1">> /\ ~parsed.large_reference

\* C4 as stated: in every result, large_reference is true whenever verse is
\* None, also when the text has no structural match at all.
C4_NoVerseIsLarge ==
    (Returned /\ parsed.verse = None) => parsed.large_reference

\* C4 amended: in every result for a text with a structural match,
\* large_reference is true whenever verse is None (book-only texts included);
\* for a text with no structural match verse is None and large_reference is False.
C4_NoVerseIsLargeIffMatched ==
    (Returned /\ parsed.verse = None) => (parsed.large_reference <=> Matched)

C4_Witness ==
    /\ op = "parsed" /\ user_input = <<"1",":","1">>
    /\ parsed.verse = None /\ parsed.book = None /\ ~parsed.large_reference

\* C5: when the captured book span equals a registered alias ignoring case,
\* book is that alias's canonical title, whatever the casing of the text.
C5_AliasResolvesToTitle ==
    (Returned /\ Matched) =>
        /\ \A p \in AliasPairs : p[1] = Lower(Token) => parsed.book = p[2]
        /\ user_input \in {GEN_UPPER, GEN_LOWER} => parsed.book = GENESIS

C5_Witness ==
    /\ op = "parsed" /\ user_input = GEN_UPPER
    /\ parsed.book = GENESIS

\* C6: when the first result has book, chapter and verse, its reference is
\* "{book} {chapter}[side]:{verse}" and parsing that reference again gives
\* the same reference, for every alias of the table.
C6_ReparseReproducesReference ==
    (op = "reparsed" /\ first.book # None /\ first.chapter # None /\ first.verse # None) =>
        /\ first.reference =
              first.book \o <<" ">> \o first.chapter
              \o (IF first.side = None THEN <<>> ELSE first.side)
              \o <<":">> \o first.verse
        /\ parsed.reference = first.reference

\* the text begins with a book-like token: digits, then spaces, then a letter
BeginsWithBookToken(s) ==
    \E n \in 1..Len(s) :
        /\ s[n] \in AlphaChars
        /\ \E d \in 0..(n - 1) :
              /\ \A k \in 1..d : s[k] \in DigitChars
              /\ \A k \in (d + 1)..(n - 1) : s[k] \in SpaceChars

\* C15: for a text with no structural match (one that does not begin with a
\* book-like token, such as "" or "3:16") a result is returned all the same:
\* book, chapter, verse and side are all None and valid is False.
C15_NoMatchGivesNothingFound ==
    (Returned /\ ~BeginsWithBookToken(user_input)) =>
        /\ parsed.book = None
        /\ parsed.chapter = None
        /\ parsed.verse = None
        /\ parsed.side = None
        /\ parsed.valid = FALSE

\* "3:16" has been parsed
C15_Witness ==
    /\ op = "parsed"
    /\ user_input = BARE_3_16
    /\ ~BeginsWithBookToken(user_input)
    /\ parsed.book = None

\* a group of the result that matched, written out; nothing for a group that did not
Written(prefix, group) == IF group = None THEN <<>> ELSE prefix \o group

\* C16: the reference of every result is non-empty and is the book, then a
\* space and the chapter if one matched, then the side letter if one matched,
\* then ':' and the verse if one matched, in this order and nothing else; a
\* verse written after '.' comes out after ':'.
C16_ReferenceIsBookChapterSideVerse ==
    Returned =>
        /\ Len(parsed.reference) > 0
        /\ parsed.reference =
              Str(parsed.book) \o Written(<<" ">>, parsed.chapter)
                  \o Written(<<>>, parsed.side) \o Written(<<":">>, parsed.verse)
        /\ user_input = JOHN_3A_DOT_16 =>
              parsed.reference = <<"J","o","h","n"," ","3","a",":","1","6">>

\* "John 3a.16" has been parsed, with chapter, side and verse
C16_Witness ==
    /\ op = "parsed"
    /\ user_input = JOHN_3A_DOT_16
    /\ parsed.chapter # None /\ parsed.side # None /\ parsed.verse # None

\* the alias table with every entry that repeats an earlier entry removed
DropLaterDuplicates(table) ==
    LET kept == {i \in 1..Len(table) : \A j \in 1..(i - 1) : table[j] # table[i]}
    IN  [n \in 1..Cardinality(kept) |->
            table[CHOOSE i \in kept : Cardinality({j \in kept : j <= i}) = n]]

Deduplicated == DropLaterDuplicates(bible_books)

\* the lowered aliases of every entry of the table without duplicates
DeduplicatedAliases ==
    [i \in 1..Len(Deduplicated) |->
        {Lower(Deduplicated[i].abbreviations[k])
            : k \in 1..Len(Deduplicated[i].abbreviations)}]

\* first match wins, over the table without duplicates
ResolveDeduplicated(reference) ==
    LET lowered == Lower(reference)
        hits    == {i \in 1..Len(Deduplicated) : lowered \in DeduplicatedAliases[i]}
    IN  IF hits = {} THEN reference
        ELSE Strip(Deduplicated[CHOOSE i \in hits : \A k \in hits : i <= k].book)

\* the entries of the embedded table that repeat an earlier entry
LaterDuplicates ==
    {j \in 1..Len(bible_books) : \E i \in 1..(j - 1) : bible_books[i] = bible_books[j]}

\* C18: the duplicate entries of the alias table change nothing: for every
\* token, resolution over the table as embedded gives the title that
\* resolution over the table without its later duplicates gives.
C18_DuplicatesChangeNothing ==
    (Returned /\ Matched) =>
        /\ get_book_name(Token) = ResolveDeduplicated(Token)
        /\ parsed.book = ResolveDeduplicated(Token)

\* the token matches an alias of an entry the table repeats
C18_Witness ==
    /\ op = "parsed" /\ Matched
    /\ MatchingEntries(Token) \cap LaterDuplicates # {}
    /\ Len(Deduplicated) < Len(bible_books)
    /\ parsed.book # Token

\* C29: the two tables of the registry agree: the title alias resolution
\* returns for a registered alias is a member of the sequence get_books
\* returns, and every title of that sequence, followed by a chapter and a
\* verse, comes back from extract_book_reference as book unchanged.
C29_TablesAgree ==
    Returned =>
        /\ (Matched /\ MatchingEntries(Token) # {}) => parsed.book \in ListTokens
        /\ \A t \in ListTokens :
              user_input = t \o <<" ","3",":","1","6">> => parsed.book = t

----------------------------------------------------------------------------
(* MatchingHelpers.fuzzy_match_best_dicts                                   *)

\* target_fields, as get_sefaria_text passes them (the first two)
target_fields == <<"title", "versionTitle">>

\* threshold: int = 80
threshold == 80

\* the strings stored in candidates and asked for as targets
KJV == <<"K","J","V">>
KJB == <<"K","J","B">>
Texts == {KJV, KJB}
TargetTexts == {KJV}

\* the scores the library may give two different non-empty strings
Scores == {0, 45, 79, 80}

\* the pairs of different strings the library is asked about
TextPairs == {{a, b} : a \in TargetTexts, b \in Texts} \ {{a} : a \in TargetTexts}

\* fuzzywuzzy.fuzz.ratio: 0 for None, 100 for equal arguments, 0 for an empty
\* string, and otherwise the library's similarity percentage
ratio(s1, s2) ==
    IF s1 = None \/ s2 = None THEN 0
    ELSE IF s1 = s2 THEN 100
    ELSE IF Len(s1) = 0 \/ Len(s2) = 0 THEN 0
    ELSE similarity[{s1, s2}]

\* d.get(field, "")
Get(d, field) == IF field \in DOMAIN d THEN d[field] ELSE <<>>

\* zip(target_fields, target_values): the indices it pairs
Zipped(values) ==
    1..(IF Len(target_fields) <= Len(values) THEN Len(target_fields) ELSE Len(values))

\* the pairs the loop does not skip: if value is None: continue
compared(values) == {i \in Zipped(values) : values[i] # None}

\* score = fuzzywuzzy.fuzz.ratio(field_value, value)
field_score(d, values, i) == ratio(Get(d, target_fields[i]), values[i])

RECURSIVE SumScores(_, _, _)
SumScores(d, values, S) ==
    IF S = {} THEN 0
    ELSE LET i == CHOOSE k \in S : TRUE
         IN  field_score(d, values, i) + SumScores(d, values, S \ {i})

\* a total that compares a null target as the empty string instead of skipping it
RECURSIVE SumScoresOrEmpty(_, _, _)
SumScoresOrEmpty(d, values, S) ==
    IF S = {} THEN 0
    ELSE LET i == CHOOSE k \in S : TRUE
         IN  ratio(Get(d, target_fields[i]), IF values[i] = None THEN <<>> ELSE values[i])
             + SumScoresOrEmpty(d, values, S \ {i})

total_score_or_empty(d, values) == SumScoresOrEmpty(d, values, Zipped(values))

\* total_score after the inner loop
total_score(d, values) == SumScores(d, values, compared(values))

\* an inclusion test on the total alone
included_by_total(d, values) == total_score(d, values) >= threshold

\* total_score > 0 and any(ratio(...) >= threshold for ... if value is not None)
included(d, values) ==
    /\ total_score(d, values) > 0
    /\ \E i \in compared(values) : field_score(d, values, i) >= threshold

\* an outer loop that skips a dict equal to one it has already taken
appended_distinct(list, values) ==
    LET keep == SelectSeq([i \in 1..Len(list) |-> i],
                          LAMBDA i : /\ included(list[i], values)
                                     /\ \A j \in 1..(i - 1) : list[j] # list[i])
    IN  [k \in 1..Len(keep) |->
            [pos |-> keep[k], d |-> list[keep[k]],
             total_score |-> total_score(list[keep[k]], values)]]

\* matches after the outer loop; pos is the identity of the appended dict
appended(list, values) ==
    LET keep == SelectSeq([i \in 1..Len(list) |-> i], LAMBDA i : included(list[i], values))
    IN  [k \in 1..Len(keep) |->
            [pos |-> keep[k], d |-> list[keep[k]],
             total_score |-> total_score(list[keep[k]], values)]]

\* one element put into a list sorted by descending score, after its equals
insert_stable(sorted, m) ==
    LET before == {k \in 1..Len(sorted) : sorted[k].total_score >= m.total_score}
        n      == Cardinality(before)
    IN  SubSeq(sorted, 1, n) \o <<m>> \o SubSeq(sorted, n + 1, Len(sorted))

\* one element put into a list sorted by descending score, before its equals
insert_unstable(sorted, m) ==
    LET before == {k \in 1..Len(sorted) : sorted[k].total_score > m.total_score}
        n      == Cardinality(before)
    IN  SubSeq(sorted, 1, n) \o <<m>> \o SubSeq(sorted, n + 1, Len(sorted))

\* the place insertion gives an element
insert(sorted, m) == insert_stable(sorted, m)

\* matches.sort(key=lambda x: x[1], reverse=True): a stable sort
RECURSIVE sort_matches(_)
sort_matches(ms) ==
    IF Len(ms) = 0 THEN <<>>
    ELSE insert(sort_matches(SubSeq(ms, 1, Len(ms) - 1)), ms[Len(ms)])

fuzzy_match_best_dicts(list, values) == sort_matches(appended(list, values))

\* return [match[0] for match in matches]
returned_dicts(ms) == [k \in 1..Len(ms) |-> ms[k].d]

\* d.get(field)
GetOrNone(d, field) == IF field \in DOMAIN d THEN d[field] ELSE None

\* f"""{best_versions[0].get("languageFamilyName")}|{best_versions[0].get("versionTitle")}"""
\* if best_versions, else None
sefaria_version(best_versions) ==
    IF Len(best_versions) > 0
    THEN Str(GetOrNone(best_versions[1], "languageFamilyName")) \o <<"|">>
             \o Str(GetOrNone(best_versions[1], "versionTitle"))
    ELSE None

PRIMARY == <<"p","r","i","m","a","r","y">>

\* "version": sefaria_version or "primary"
version_param(chosen) == IF Truthy(chosen) THEN chosen ELSE PRIMARY

\* best_versions[0] in the footer of the header embed raises IndexError
footer_raises(best_versions) == Len(best_versions) = 0

----------------------------------------------------------------------------
(* The ranker as a state machine: a candidate list and targets are given,   *)
(* and the ranker is called on them.                                        *)

\* most candidates in a list
MaxCands == 3

Candidates == UNION {[F -> Texts] : F \in SUBSET {target_fields[i] : i \in 1..Len(target_fields)}}

CandidateLists == UNION {[1..n -> Candidates] : n \in 0..MaxCands}

TargetLists == [1..Len(target_fields) -> TargetTexts \cup {None}]

InitRank ==
    /\ op = "candidates"
    /\ data_list \in CandidateLists
    /\ target_values \in TargetLists
    /\ similarity \in [TextPairs -> Scores]
    /\ matches = <<>>
    /\ params = <<>>
    /\ ExtractIdle
    /\ ScanIdle
    /\ ConvertIdle
    /\ ServiceIdle

\* matches = fuzzy_match_best_dicts(data_list, target_fields, target_values)
Rank ==
    /\ op = "candidates"
    /\ matches' = fuzzy_match_best_dicts(data_list, target_values)
    /\ op' = "ranked"
    /\ UNCHANGED <<data_list, target_values, similarity, params, extract_vars, scan_vars,
                   convert_vars, service_vars>>

\* SefariaAPI.get_sefaria_text, with data_list as self.sefaria_versions and
\* target_values as the book, version and language it ranks by: it ranks the
\* versions, requests the text, and builds the header embed, whose footer
\* reads best_versions[0]; then it returns its pages
GetSefariaText ==
    /\ op = "candidates"
    /\ LET ranked        == fuzzy_match_best_dicts(data_list, target_values)
           best_versions == returned_dicts(ranked)
       IN  /\ matches' = ranked
           /\ params' = [version |-> version_param(sefaria_version(best_versions))]
           /\ op' = IF footer_raises(best_versions) THEN "raised" ELSE "returned"
    /\ UNCHANGED <<data_list, target_values, similarity, extract_vars, scan_vars,
                   convert_vars, service_vars>>

NextRank == Rank \/ GetSefariaText

SpecRank == InitRank /\ [][NextRank]_vars

----------------------------------------------------------------------------
(* Properties of the ranker, checked under SpecRank.                        *)

\* the score of field i of candidate d against the targets of the state
ScoreOf(d, i) == ratio(Get(d, target_fields[i]), target_values[i])

\* the non-skipped fields
NonNull == {i \in 1..2 : target_values[i] # None}

\* the total of candidate d over the non-skipped fields
TotalOf(d) ==
    (IF target_values[1] # None THEN ScoreOf(d, 1) ELSE 0)
    + (IF target_values[2] # None THEN ScoreOf(d, 2) ELSE 0)

\* the input positions of the returned candidates, in the order returned
Positions(ms) == [k \in 1..Len(ms) |-> ms[k].pos]

\* C7: every returned candidate has a positive total and at least one
\* non-skipped field whose score is >= threshold, however high its total.
C7_ReturnedHasFieldAboveThreshold ==
    op = "ranked" =>
        \A k \in 1..Len(matches) :
            /\ matches[k].d = data_list[matches[k].pos]
            /\ TotalOf(matches[k].d) > 0
            /\ \E i \in NonNull : ScoreOf(matches[k].d, i) >= 80

\* a candidate whose two fields score 79 each (158 in total) is left out
C7_Witness ==
    /\ op = "ranked"
    /\ \E n \in 1..Len(data_list) :
          /\ TotalOf(data_list[n]) = 158
          /\ \A i \in NonNull : ScoreOf(data_list[n], i) < 80
          /\ \A k \in 1..Len(matches) : matches[k].pos # n
    /\ Len(matches) > 0

\* C8: the returned sequence is non-increasing in total score, and returned
\* candidates with equal totals keep their relative input order.
C8_DescendingAndStable ==
    op = "ranked" =>
        \A j, k \in 1..Len(matches) :
            j < k =>
                /\ TotalOf(matches[j].d) >= TotalOf(matches[k].d)
                /\ TotalOf(matches[j].d) = TotalOf(matches[k].d)
                      => matches[j].pos < matches[k].pos

\* three candidates returned: the last input first, the two tied ones in input order
C8_Witness ==
    /\ op = "ranked" /\ Len(matches) = 3
    /\ Positions(matches) = <<3, 1, 2>>
    /\ TotalOf(matches[1].d) > TotalOf(matches[2].d)
    /\ TotalOf(matches[2].d) = TotalOf(matches[3].d)

\* candidate c stores the same as d under every field whose target is not null
AgreeOnCompared(c, d) ==
    \A i \in NonNull :
        /\ target_fields[i] \in DOMAIN c <=> target_fields[i] \in DOMAIN d
        /\ Get(c, target_fields[i]) = Get(d, target_fields[i])

\* C9: a field whose target is null is skipped: a candidate list that differs
\* only under null-target fields gives the same candidates, by position, in
\* the same order.
C9_NullTargetFieldIgnored ==
    op = "ranked" =>
        \A n \in 1..Len(data_list) :
            \A c \in Candidates :
                AgreeOnCompared(c, data_list[n]) =>
                    Positions(fuzzy_match_best_dicts([data_list EXCEPT ![n] = c], target_values))
                        = Positions(matches)

\* two candidates returned that store different things under the null-target field
C9_Witness ==
    /\ op = "ranked" /\ target_values = <<KJV, None>>
    /\ Len(matches) = 2
    /\ "versionTitle" \in DOMAIN matches[1].d
    /\ "versionTitle" \notin DOMAIN matches[2].d
    /\ TotalOf(matches[1].d) < 100

\* candidate d qualifies: a positive total and a non-skipped field score >= threshold
Qualifies(d) == TotalOf(d) > 0 /\ \E i \in NonNull : ScoreOf(d, i) >= threshold

\* how often d occurs in the input, and in the result
TimesGiven(d) == Cardinality({n \in 1..Len(data_list) : data_list[n] = d})
TimesReturned(d) == Cardinality({k \in 1..Len(matches) : matches[k].d = d})

\* C30: the ranker is complete and adds nothing: a candidate that qualifies
\* is returned as many times as it occurs in the input, every returned
\* element is an input candidate, and with all target values null the
\* result is empty.
C30_CompleteAndAddsNothing ==
    op = "ranked" =>
        /\ \A n \in 1..Len(data_list) :
              Qualifies(data_list[n]) => TimesReturned(data_list[n]) = TimesGiven(data_list[n])
        /\ \A k \in 1..Len(matches) : TimesGiven(matches[k].d) > 0
        /\ NonNull = {} => matches = <<>>

\* a qualifying candidate occurs twice in the input, next to one that does not qualify
C30_Witness ==
    /\ op = "ranked"
    /\ \E m, n \in 1..Len(data_list) :
          m < n /\ data_list[m] = data_list[n] /\ Qualifies(data_list[m])
    /\ \E n \in 1..Len(data_list) : ~Qualifies(data_list[n])
    /\ Len(matches) = 2

\* get_sefaria_text has come to its end: it returned its pages, or raised
TextRequested == op \in {"returned", "raised"}

\* no candidate has a non-skipped field whose score is >= threshold
NoneMeetsThreshold ==
    \A k \in 1..Len(data_list) : \A i \in NonNull : ScoreOf(data_list[k], i) < threshold

\* C17: when no version candidate meets the threshold the ranker returns an
\* empty list, and get_sefaria_text requests the text with version "primary"
\* and returns its pages without raising.
C17_EmptyRankingFallsBackToPrimary ==
    (TextRequested /\ NoneMeetsThreshold) =>
        /\ matches = <<>>
        /\ params.version = PRIMARY
        /\ op = "returned"

----------------------------------------------------------------------------
(* KeywordMessageParser                                                     *)

\* seq has an element equal to x
InSeq(x, seq) == \E k \in 1..Len(seq) : seq[k] = x

\* recurse(entries) without descending: only the entries of the top list that
\* hold no contents
top_level_only(entries) == SelectSeq(entries, LAMBDA entry : "contents" \notin DOMAIN entry)

\* recurse(entries): the entries without "contents", those of nested contents
\* included, in the order they are appended to flattened
RECURSIVE recurse(_)
recurse(entries) ==
    IF Len(entries) = 0 THEN <<>>
    ELSE LET entry == Head(entries)
         IN  (IF "contents" \in DOMAIN entry THEN recurse(entry.contents) ELSE <<entry>>)
             \o recurse(Tail(entries))

\* [d for d in flattened if "title" in d]
with_title(flattened) == SelectSeq(flattened, LAMBDA d : "title" \in DOMAIN d)

\* fetch_sefaria_index for an answer with status 200
fetch_sefaria_index(index_data) == with_title(recurse(index_data))

\* [d["title"] for d in SefariaAPI.sefaria_index if "title" in d]
index_titles(index) ==
    LET titled == SelectSeq(index, LAMBDA d : "title" \in DOMAIN d)
    IN  [k \in 1..Len(titled) |-> titled[k].title]

\* the titles, those of the Christian list among them
keep_titles(titles, christian) == titles

\* [title for title in self.jewish_titles if title not in self.christian_titles]
not_christian(titles, christian) == SelectSeq(titles, LAMBDA x : ~InSeq(x, christian))

\* "|".join(map(re.escape, titles)) as the alternatives of the group, in order:
\* an empty list leaves one alternative, the empty string
alternatives(titles) == IF Len(titles) = 0 THEN << <<>> >> ELSE titles

\* \b at index p of s
WordBoundary(s, p) == At(s, p - 1, WordChars) # At(s, p, WordChars)

\* the literal text lit stands in s from index p on
LiteralAt(s, p, lit) ==
    /\ p + Len(lit) - 1 <= Len(s)
    /\ \A k \in 1..Len(lit) : s[p + k - 1] = lit[k]

\* (?:\.\d+|:\d+)* starting at i: where the greedy repetition stops
RECURSIVE MoreNumbers(_, _)
MoreNumbers(s, i) ==
    IF At(s, i, {".", ":"}) /\ At(s, i + 1, DigitChars)
    THEN MoreNumbers(s, SkipWhile(s, i + 1, DigitChars))
    ELSE i

\* \s+(\d+(?:\.\d+|:\d+)*) from index q on: [ok, from, to], the span of group 2
TailAt(s, q) ==
    LET ws == SkipWhile(s, q, SpaceChars)
        ok == ws > q /\ At(s, ws, DigitChars)
    IN  [ok |-> ok, from |-> ws,
         to |-> IF ok THEN MoreNumbers(s, SkipWhile(s, ws, DigitChars)) ELSE ws]

\* the alternatives, in order, with which the pattern matches at index p
MatchingAlternatives(s, p, alts) ==
    SelectSeq([k \in 1..Len(alts) |-> k],
              LAMBDA k : LiteralAt(s, p, alts[k]) /\ TailAt(s, p + Len(alts[k])).ok)

\* the pattern matches at index p
MatchesAt(s, p, alts) == WordBoundary(s, p) /\ Len(MatchingAlternatives(s, p, alts)) > 0

\* the match at index p: the first alternative that matches wins.
\* start is match.start() (an offset, from 0); stop the index after the match
MatchAt(s, p, alts) ==
    LET title == alts[Head(MatchingAlternatives(s, p, alts))]
        tail  == TailAt(s, p + Len(title))
    IN  [start |-> p - 1, group1 |-> title,
         group2 |-> SubSeq(s, tail.from, tail.to - 1), stop |-> tail.to]

\* re.finditer(pattern, message): the matches from index p on, left to right,
\* not overlapping
RECURSIVE finditer(_, _, _)
finditer(s, p, alts) ==
    IF p > Len(s) THEN <<>>
    ELSE IF MatchesAt(s, p, alts)
         THEN LET m == MatchAt(s, p, alts) IN <<m>> \o finditer(s, m.stop, alts)
         ELSE finditer(s, p + 1, alts)

\* (match.start(), source, f"{match.group(1)} {match.group(2)}") for every match
tagged(ms, source) ==
    [k \in 1..Len(ms) |->
        [start |-> ms[k].start, source |-> source,
         reference |-> ms[k].group1 \o <<" ">> \o ms[k].group2]]

\* a list sorted by start with one element added after its equals
insert_by_start(sorted, m) ==
    LET before == {k \in 1..Len(sorted) : sorted[k].start <= m.start}
        n      == Cardinality(before)
    IN  SubSeq(sorted, 1, n) \o <<m>> \o SubSeq(sorted, n + 1, Len(sorted))

\* the list in the order the matches were appended: Christian, then second canon
keep_append_order(ms) == ms

\* combined_matches.sort(key=lambda x: x[0])
RECURSIVE sort_by_start(_)
sort_by_start(ms) ==
    IF Len(ms) = 0 THEN <<>>
    ELSE insert_by_start(sort_by_start(SubSeq(ms, 1, Len(ms) - 1)), ms[Len(ms)])

\* re.search(r'\d+[:.\s]\d+', reference)
has_verse(reference) ==
    \E i \in 1..Len(reference) :
        /\ At(reference, i, DigitChars)
        /\ At(reference, i + 1, {":", "."} \cup SpaceChars)
        /\ At(reference, i + 2, DigitChars)

\* [item for item in combined_matches if re.search(r'\d+[:.\s]\d+', item[2])]
drop_broad(ms) == SelectSeq(ms, LAMBDA item : has_verse(item.reference))

\* parse_message, up to the list of matches it dispatches
scan(msg, christian, jewish) ==
    drop_broad(sort_by_start(
        tagged(finditer(msg, 1, alternatives(christian)), "biblegateway")
        \o tagged(finditer(msg, 1, alternatives(jewish)), "sefaria")))

\* the lookup parse_message calls for every retained match, in loop order
lookups(ms) ==
    [k \in 1..Len(ms) |->
        [call |-> IF ms[k].source = "biblegateway" THEN "BibleGateway.fetch_verse"
                  ELSE "SefariaAPI.get_sefaria_text",
         reference |-> ms[k].reference]]

----------------------------------------------------------------------------
(* The scanner as a state machine: the index is fetched, the parser is      *)
(* constructed from it and then scans a message and dispatches its lookups. *)

\* most pieces a message is put together from
MaxPieces == 3

BERAKHOT == <<"B","e","r","a","k","h","o","t">>

\* a second-canon title that ends in a number
ENOCH_2 == <<"E","n","o","c","h"," ","2">>

\* index trees. Their leaf records: with a title, with a title the Christian
\* canon also has, with a title that ends in a number, without a title; at
\* the top and under nested contents
Indexes ==
    {<<>>,
     <<[heTitle |-> <<"x">>]>>,
     <<[category |-> <<"T">>,
        contents |-> <<[title |-> GENESIS], [heTitle |-> <<"x">>]>>],
       [category |-> <<"M">>,
        contents |-> <<[category |-> <<"S">>, contents |-> <<[title |-> BERAKHOT]>>]>>]>>,
     <<[title |-> BERAKHOT], [category |-> <<"A">>, contents |-> <<[title |-> ENOCH_2]>>]>>}

\* answers of the index request: a tree with status 200, or a failure
Responses ==
    {[status_code |-> 200, json |-> index] : index \in Indexes}
        \cup {[status_code |-> 500, json |-> <<>>]}

PLEASE_READ ==
    <<"P","l","e","a","s","e"," ","r","e","a","d"," ","J","o","h","n"," ","3",":","1","6",
      " ","a","n","d"," ","a","l","s","o"," ","G","e","n","e","s","i","s",".">>

Pieces ==
    {JOHN_3_16, <<"B","e","r","a","k","h","o","t"," ","2",":","5">>, GENESIS, ENOCH_2,
     <<" ","3">>, <<".","7">>, <<" ">>, <<"1"," ">>, <<"x">>}

RECURSIVE Concat(_)
Concat(parts) == IF Len(parts) = 0 THEN <<>> ELSE Head(parts) \o Concat(Tail(parts))

Messages ==
    {PLEASE_READ} \cup {Concat(parts) : parts \in UNION {[1..n -> Pieces] : n \in 0..MaxPieces}}

InitScan ==
    /\ op = "response"
    /\ response \in Responses
    /\ sefaria_index = <<>>
    /\ message \in Messages
    /\ christian_titles = <<>>
    /\ jewish_titles = <<>>
    /\ combined_matches = <<>>
    /\ dispatched = <<>>
    /\ ExtractIdle
    /\ RankIdle
    /\ ConvertIdle
    /\ ServiceIdle

\* SefariaAPI.fetch_sefaria_index, called by SefariaAPI.__init__: any status
\* but 200 sets index_data = None, and recurse(None) raises TypeError
Fetch ==
    /\ op = "response"
    /\ IF response.status_code = 200
       THEN /\ sefaria_index' = fetch_sefaria_index(response.json)
            /\ op' = "index"
       ELSE /\ sefaria_index' = sefaria_index
            /\ op' = "fetch_raised"
    /\ UNCHANGED <<response, christian_titles, jewish_titles, message, combined_matches,
                   dispatched, extract_vars, rank_vars, convert_vars, service_vars>>

\* KeywordMessageParser.__init__
Construct ==
    /\ op = "index"
    /\ christian_titles' = books
    /\ jewish_titles' = not_christian(index_titles(sefaria_index), books)
    /\ op' = "constructed"
    /\ UNCHANGED <<response, sefaria_index, message, combined_matches, dispatched,
                   extract_vars, rank_vars, convert_vars, service_vars>>

\* KeywordMessageParser.parse_message(message): the retained matches, then one
\* lookup after the other in list order. A call of get_sefaria_text either
\* returns its pages or raises (it raises when its ranker returns nothing),
\* which ends parse_message at that call: raised is the call that raises, or 0
ParseMessage ==
    /\ op = "constructed"
    /\ \E retained \in {scan(message, christian_titles, jewish_titles)} :
          \E raised \in {0} \cup {k \in 1..Len(retained) : retained[k].source = "sefaria"} :
              /\ combined_matches' = retained
              /\ dispatched' = IF raised = 0 THEN lookups(retained)
                               ELSE SubSeq(lookups(retained), 1, raised)
              /\ op' = IF raised = 0 THEN "scanned" ELSE "lookup_raised"
    /\ UNCHANGED <<response, sefaria_index, christian_titles, jewish_titles, message,
                   extract_vars, rank_vars, convert_vars, service_vars>>

NextScan == Fetch \/ Construct \/ ParseMessage

SpecScan == InitScan /\ [][NextScan]_vars

----------------------------------------------------------------------------
(* Properties of the scanner, checked under SpecScan.                       *)

\* the title list a match's tag names
TitlesOf(source) == IF source = "biblegateway" THEN christian_titles ELSE jewish_titles

\* a title of the list stands at offset start of the message, followed by
\* whitespace and then a digit
TitleThenNumberAt(start, titles) ==
    \E k \in 1..Len(titles) :
        /\ LiteralAt(message, start + 1, titles[k])
        /\ At(message, start + 1 + Len(titles[k]), SpaceChars)
        /\ At(message, SkipWhile(message, start + 1 + Len(titles[k]), SpaceChars), DigitChars)

\* the offset at which "John" stands in PLEASE_READ
OffsetOfJohn == (CHOOSE p \in 1..Len(PLEASE_READ) : LiteralAt(PLEASE_READ, p, JOHN)) - 1

\* C10: a match is produced only where a title is followed by whitespace and
\* digits, at the offset where the title starts; for "Please read John 3:16
\* and also Genesis." the result is exactly one match, tagged Christian, at
\* the offset of "John".
C10_MatchOnlyAtTitleThenNumber ==
    op = "scanned" =>
        /\ \A k \in 1..Len(combined_matches) :
              TitleThenNumberAt(combined_matches[k].start,
                                TitlesOf(combined_matches[k].source))
        /\ message = PLEASE_READ =>
              combined_matches =
                  <<[start |-> OffsetOfJohn, source |-> "biblegateway", reference |-> JOHN_3_16]>>

\* the chapter/verse tail of a retained reference: what follows its last space
\* (the reference is title, one space, tail, and the tail holds no space)
TailOf(reference) ==
    LET spaces == {i \in 1..Len(reference) : reference[i] = " "}
        last   == IF spaces = {} THEN 0 ELSE CHOOSE i \in spaces : \A j \in spaces : j <= i
    IN  SubSeq(reference, last + 1, Len(reference))

\* a ':' or '.' stands between two digits of the tail
SeparatesNumbers(tail) ==
    \E i \in 1..Len(tail) :
        /\ tail[i] \in {":", "."}
        /\ At(tail, i - 1, DigitChars)
        /\ At(tail, i + 1, DigitChars)

\* C11: every retained match has a chapter/verse tail with a ':' or '.'
\* between numbers; no match whose tail is a bare chapter number is retained,
\* whatever the message and the titles (titles ending in digits included).
C11_RetainedTailHasVerseSeparator ==
    op = "scanned" =>
        \A k \in 1..Len(combined_matches) :
            SeparatesNumbers(TailOf(combined_matches[k].reference))

\* parse_message has come to its end: it returned, or a lookup raised
Scanned == op \in {"scanned", "lookup_raised"}

\* C12: the retained matches are ordered by position whatever their canon:
\* of two retained matches the earlier in the list starts no later in the
\* message; the lookups are called in that same order, one per match (all of
\* them when parse_message returns).
C12_OrderedByPositionAndDispatchedInOrder ==
    Scanned =>
        /\ \A j, k \in 1..Len(combined_matches) :
              j < k => combined_matches[j].start <= combined_matches[k].start
        /\ Len(dispatched) <= Len(combined_matches)
        /\ op = "scanned" => Len(dispatched) = Len(combined_matches)
        /\ \A k \in 1..Len(dispatched) :
              /\ dispatched[k].reference = combined_matches[k].reference
              /\ dispatched[k].call = "SefariaAPI.get_sefaria_text"
                    <=> combined_matches[k].source = "sefaria"

\* a second-canon match stands before a Christian one, and both are looked up
C12_Witness ==
    /\ op = "scanned"
    /\ Len(combined_matches) = 2
    /\ combined_matches[1].source = "sefaria"
    /\ combined_matches[2].source = "biblegateway"
    /\ combined_matches[1].start < combined_matches[2].start
    /\ Len(dispatched) = 2

\* the title of a retained reference: what precedes its last space
TitleOf(reference) == SubSeq(reference, 1, Len(reference) - Len(TailOf(reference)) - 1)

\* the names both canons have: titles of the fetched index that are Christian titles
SharedTitles ==
    {index_titles(sefaria_index)[k] : k \in 1..Len(index_titles(sefaria_index))}
        \cap {books[k] : k \in 1..Len(books)}

\* C13: no two retained matches are for the same literal substring of the
\* message (same start, same text), and a match for a name both canons have
\* is tagged Christian.
C13_SharedNameMatchedOnceAsChristian ==
    Scanned =>
        /\ \A j, k \in 1..Len(combined_matches) :
              j < k => ~ /\ combined_matches[j].start = combined_matches[k].start
                         /\ combined_matches[j].reference = combined_matches[k].reference
        /\ \A k \in 1..Len(combined_matches) :
              TitleOf(combined_matches[k].reference) \in SharedTitles
                  => combined_matches[k].source = "biblegateway"

\* "Genesis" is a title of the fetched index too, and "Genesis 3.7" is retained
C13_Witness ==
    /\ op = "scanned"
    /\ GENESIS \in SharedTitles
    /\ \E k \in 1..Len(combined_matches) :
          TitleOf(combined_matches[k].reference) = GENESIS

\* C14: every reference the scanner retains and dispatches, parsed by
\* extract_book_reference, has large_reference = False.
C14_DispatchedReferenceNotLarge ==
    Scanned =>
        \A k \in 1..Len(dispatched) :
            ~extract_book_reference(dispatched[k].reference).large_reference

\* the title values of the leaf records (records without contents) of an
\* index tree that carry a title
RECURSIVE LeafTitles(_)
LeafTitles(entries) ==
    UNION {IF "contents" \in DOMAIN entries[k] THEN LeafTitles(entries[k].contents)
           ELSE IF "title" \in DOMAIN entries[k] THEN {entries[k].title}
           ELSE {} : k \in 1..Len(entries)}

\* the parser has been constructed
Constructed == op \in {"constructed", "scanned", "lookup_raised"}

\* C19: the second-canon title set of the scanner is exactly the title values
\* of the index's leaf records that carry a title, minus every Christian
\* title; leaf records without a title are left out and raise nothing: an
\* index answered with status 200 is always fetched.
C19_SecondCanonTitlesAreLeafTitlesMinusChristian ==
    /\ Constructed =>
          {jewish_titles[k] : k \in 1..Len(jewish_titles)}
              = LeafTitles(response.json) \ {books[k] : k \in 1..Len(books)}
    /\ op = "fetch_raised" => response.status_code # 200

\* the index has a nested leaf without a title, one with a Christian title and
\* one with a title of its own, and only the last is a second-canon title
C19_Witness ==
    /\ op = "constructed"
    /\ Len(recurse(response.json)) > Len(sefaria_index)
    /\ GENESIS \in LeafTitles(response.json)
    /\ jewish_titles = <<BERAKHOT>>

\* text begins with title
BeginsWith(text, title) == Len(title) <= Len(text) /\ SubSeq(text, 1, Len(title)) = title

\* C28: every match carries the tag of the title set that matched it: the
\* reference text of a match tagged Christian begins with a Christian title,
\* that of a match tagged second-canon with a second-canon title, whatever
\* the title sets, an empty second title set included.
C28_TagNamesTheMatchingTitleSet ==
    Scanned =>
        \A k \in 1..Len(combined_matches) :
            \E n \in 1..Len(TitlesOf(combined_matches[k].source)) :
                BeginsWith(combined_matches[k].reference,
                           TitlesOf(combined_matches[k].source)[n])

----------------------------------------------------------------------------
(* convert_version as a state machine: a string is converted, on the class  *)
(* BibleBooks or on an instance of BibleData, and the result is converted   *)
(* again.                                                                   *)

\* the strings converted: every short code, as written and in lower case;
\* every long name, as written, in upper case and in lower case; other texts
VersionInputs ==
    UNION {{versions[i].short, Lower(versions[i].short), versions[i].long,
            Upper(versions[i].long), Lower(versions[i].long)} : i \in 1..Len(versions)}
    \cup ShortTexts

Receivers == {"BibleBooks", "BibleData()"}

\* convert_version called on receiver r
call_convert_version(r, v) ==
    IF r = "BibleBooks" THEN convert_version(v) ELSE BibleData_convert_version(v)

InitConvert ==
    /\ op = "version"
    /\ receiver \in Receivers
    /\ version \in VersionInputs
    /\ converted = None
    /\ converted_back = None
    /\ ExtractIdle
    /\ RankIdle
    /\ ScanIdle
    /\ ServiceIdle

\* converted = receiver.convert_version(version)
Convert ==
    /\ op = "version"
    /\ LET result == call_convert_version(receiver, version)
       IN  IF result = AttributeError
           THEN converted' = converted /\ op' = "convert_raised"
           ELSE converted' = result /\ op' = "converted"
    /\ UNCHANGED <<receiver, version, converted_back, extract_vars, rank_vars, scan_vars,
                   service_vars>>

\* converted_back = receiver.convert_version(converted), for a result that is a string
ConvertBack ==
    /\ op = "converted"
    /\ converted # None
    /\ converted_back' = call_convert_version(receiver, converted)
    /\ op' = "converted_back"
    /\ UNCHANGED <<receiver, version, converted, extract_vars, rank_vars, scan_vars,
                   service_vars>>

NextConvert == Convert \/ ConvertBack

SpecConvert == InitConvert /\ [][NextConvert]_vars

----------------------------------------------------------------------------
(* Properties of convert_version, checked under SpecConvert.                *)

\* the entries whose short code is v, and those whose long name is v in some casing
ShortCodeOf(v) == {i \in 1..Len(versions) : versions[i].short = v}
LongNameOf(v) == {i \in 1..Len(versions) : Lower(versions[i].long) = Lower(v)}

\* C20: for every short code, convert_version gives its long name;
\* convert_version of that long name, in any casing, gives the short code, so
\* that converting twice gives the short code back; and convert_version of a
\* string that is neither gives None.
C20_ConvertVersionIsBidirectional ==
    op # "version" =>
        /\ op # "convert_raised"
        /\ \A i \in ShortCodeOf(version) : converted = versions[i].long
        /\ \A i \in LongNameOf(version) : converted = versions[i].short
        /\ (ShortCodeOf(version) = {} /\ LongNameOf(version) = {}) => converted = None
        /\ (op = "converted_back" /\ ShortCodeOf(version) # {}) => converted_back = version

----------------------------------------------------------------------------
(* Concurrent calls: one extract_book_reference call, one                   *)
(* fuzzy_match_best_dicts call and two parse_message calls on the same      *)
(* parser, interleaved at the statements that touch their accumulators.     *)

\* longest candidate list of the concurrent ranker call
MaxShared == 2

Calls == {"extract", "best_matches", "scan_a", "scan_b"}

\* one frame for all calls: their local variables are one set of variables
shared_frame(c) == "shared"

\* every call runs in a frame of its own, which holds its local variables
frame(c) == c

Frames == {frame(c) : c \in Calls}

\* the local variables of a frame before its call assigns them
NoLocals == [i |-> 0, matches |-> <<>>, combined_matches |-> <<>>]

\* the two messages scanned
BERAKHOT_THEN_JOHN == <<"B","e","r","a","k","h","o","t"," ","2",":","5"," ">> \o JOHN_3_16
GENESIS_3_7 == GENESIS \o <<" ","3",".","7">>

SharedCandidates == {[title |-> KJV], [title |-> KJB]}

InitConcurrent ==
    /\ op = "concurrent"
    /\ pc = [c \in Calls |-> "call"]
    /\ call_args \in [extract : {JOHN_3_16, BARE_3_16},
                       scan_a : {BERAKHOT_THEN_JOHN, GENESIS_3_7},
                       scan_b : {BERAKHOT_THEN_JOHN, GENESIS_3_7}]
    /\ frames = [f \in Frames |-> NoLocals]
    /\ results = [c \in Calls |-> <<>>]
    /\ data_list \in UNION {[1..n -> SharedCandidates] : n \in 0..MaxShared}
    /\ target_values = <<KJV, None>>
    /\ similarity \in [TextPairs -> {45, 80}]
    /\ matches = <<>>
    /\ params = <<>>
    /\ christian_titles = books
    /\ jewish_titles = <<BERAKHOT>>
    /\ response = [status_code |-> 0, json |-> <<>>]
    /\ sefaria_index = <<>> /\ message = <<>> /\ combined_matches = <<>> /\ dispatched = <<>>
    /\ ExtractIdle
    /\ ConvertIdle
    /\ BesideConcurrentIdle

\* what a step leaves alone: the arguments, the shared objects, the other components
ConcurrentFrame ==
    UNCHANGED <<op, call_args, extract_vars, rank_vars, scan_vars, convert_vars,
                beside_concurrent>>

\* extract_book_reference(user_input): it assigns locals once and returns
ExtractCall ==
    /\ pc["extract"] = "call"
    /\ results' = [results EXCEPT !["extract"] = extract_book_reference(call_args.extract)]
    /\ pc' = [pc EXCEPT !["extract"] = "done"]
    /\ UNCHANGED frames
    /\ ConcurrentFrame

\* fuzzy_match_best_dicts: matches = []
RankStart ==
    /\ pc["best_matches"] = "call"
    /\ frames' = [frames EXCEPT ![frame("best_matches")].matches = <<>>,
                                ![frame("best_matches")].i = 1]
    /\ pc' = [pc EXCEPT !["best_matches"] = "loop"]
    /\ UNCHANGED results
    /\ ConcurrentFrame

\* fuzzy_match_best_dicts: one pass of `for d in data_list`
RankLoop ==
    /\ pc["best_matches"] = "loop"
    /\ LET f == frame("best_matches")
           i == frames[f].i
       IN  /\ i <= Len(data_list)
           /\ frames' =
                 [frames EXCEPT
                    ![f].matches =
                        IF included(data_list[i], target_values)
                        THEN Append(@, [pos |-> i, d |-> data_list[i],
                                        total_score |-> total_score(data_list[i], target_values)])
                        ELSE @,
                    ![f].i = i + 1]
    /\ UNCHANGED <<pc, results>>
    /\ ConcurrentFrame

\* fuzzy_match_best_dicts: matches.sort(...) and the return
RankReturn ==
    /\ pc["best_matches"] = "loop"
    /\ frames[frame("best_matches")].i > Len(data_list)
    /\ results' = [results EXCEPT
                      !["best_matches"] = sort_matches(frames[frame("best_matches")].matches)]
    /\ pc' = [pc EXCEPT !["best_matches"] = "done"]
    /\ UNCHANGED frames
    /\ ConcurrentFrame

\* parse_message: combined_matches = []
ScanStart(c) ==
    /\ pc[c] = "call"
    /\ frames' = [frames EXCEPT ![frame(c)].combined_matches = <<>>]
    /\ pc' = [pc EXCEPT ![c] = "christian"]
    /\ UNCHANGED results
    /\ ConcurrentFrame

\* parse_message: the matches of the Christian pattern are appended
ScanChristian(c) ==
    /\ pc[c] = "christian"
    /\ frames' = [frames EXCEPT
                     ![frame(c)].combined_matches =
                         @ \o tagged(finditer(call_args[c], 1, alternatives(christian_titles)),
                                     "biblegateway")]
    /\ pc' = [pc EXCEPT ![c] = "sefaria"]
    /\ UNCHANGED results
    /\ ConcurrentFrame

\* parse_message: the matches of the second pattern are appended
ScanSefaria(c) ==
    /\ pc[c] = "sefaria"
    /\ frames' = [frames EXCEPT
                     ![frame(c)].combined_matches =
                         @ \o tagged(finditer(call_args[c], 1, alternatives(jewish_titles)),
                                     "sefaria")]
    /\ pc' = [pc EXCEPT ![c] = "sort"]
    /\ UNCHANGED results
    /\ ConcurrentFrame

\* parse_message: combined_matches.sort(...)
ScanSort(c) ==
    /\ pc[c] = "sort"
    /\ frames' = [frames EXCEPT ![frame(c)].combined_matches = sort_by_start(@)]
    /\ pc' = [pc EXCEPT ![c] = "filter"]
    /\ UNCHANGED results
    /\ ConcurrentFrame

\* parse_message: the broad references are dropped; the list is what the call retains
ScanFilter(c) ==
    /\ pc[c] = "filter"
    /\ results' = [results EXCEPT ![c] = drop_broad(frames[frame(c)].combined_matches)]
    /\ pc' = [pc EXCEPT ![c] = "done"]
    /\ UNCHANGED frames
    /\ ConcurrentFrame

NextConcurrent ==
    \/ ExtractCall
    \/ RankStart
    \/ RankLoop
    \/ RankReturn
    \/ \E c \in {"scan_a", "scan_b"} :
          ScanStart(c) \/ ScanChristian(c) \/ ScanSefaria(c) \/ ScanSort(c) \/ ScanFilter(c)

SpecConcurrent == InitConcurrent /\ [][NextConcurrent]_vars

----------------------------------------------------------------------------
(* Properties of concurrent calls, checked under SpecConcurrent.            *)

\* every finished call has returned what it returns when it runs alone
ReturnsWhatItReturnsAlone ==
    /\ pc["extract"] = "done" =>
          results["extract"] = extract_book_reference(call_args.extract)
    /\ pc["best_matches"] = "done" =>
          results["best_matches"] = fuzzy_match_best_dicts(data_list, target_values)
    /\ \A c \in {"scan_a", "scan_b"} :
          pc[c] = "done" => results[c] = scan(call_args[c], christian_titles, jewish_titles)

\* no step changes the candidate list or the title sets
SharedLeftUnchanged ==
    /\ data_list' = data_list
    /\ christian_titles' = christian_titles
    /\ jewish_titles' = jewish_titles

\* C22: the extractor, the ranker and the scanner share no mutable state:
\* under every interleaving of concurrent calls each call returns what it
\* returns alone, and the candidate list and the title sets are left
\* unchanged (the alias table is never assigned).
C22_CallsDoNotInterfere ==
    [](op = "concurrent" => ReturnsWhatItReturnsAlone) /\ [][SharedLeftUnchanged]_vars

\* one scan has returned matches while the other scan and the ranker are in
\* the middle of their work, each with something in its accumulator
C22_Witness ==
    /\ op = "concurrent"
    /\ pc["scan_a"] = "done" /\ Len(results["scan_a"]) = 2
    /\ pc["scan_b"] = "sefaria" /\ Len(frames[frame("scan_b")].combined_matches) = 1
    /\ pc["best_matches"] = "loop" /\ Len(frames[frame("best_matches")].matches) = 1
    /\ pc["extract"] = "done"

----------------------------------------------------------------------------
(* SefariaAPI.fetch_sefaria_versions: one task for each title in a pool of *)
(* worker threads; the calling thread takes the tasks as they complete.     *)

\* longest list of titles
MaxTitles == 3

\* the pool sizes tried
PoolSizes == {1, 2}

\* the keys a version record must have to be kept
VersionKeys == {"title", "versionTitle", "languageFamilyName"}

\* the n-th record of the answer for task t; `has` are the keys d has
record(t, n, keys) == [of |-> t, n |-> n, has |-> keys]

\* no answer yet
NoResponse == [status_code |-> -1, json |-> <<>>]

\* requests.get raised instead of answering
RequestRaised == [status_code |-> 0, json |-> <<>>]

\* what the request of task t may end with: a 200 answer with well-formed
\* records and a record that lacks a key, a 500 answer (which has a body
\* too), or an exception of requests.get
VersionResponses(t) ==
    {[status_code |-> 200,
      json |-> <<record(t, 1, VersionKeys), record(t, 2, {"title", "versionTitle"}),
                 record(t, 3, VersionKeys)>>],
     [status_code |-> 500, json |-> <<record(t, 1, VersionKeys)>>],
     RequestRaised}

\* the titles argument: one title as a string, or a list of titles
TitleArguments ==
    {[is_str |-> TRUE, value |-> "Genesis"]}
        \cup {[is_str |-> FALSE, value |-> [i \in 1..n |-> "Genesis"]] : n \in 0..MaxTitles}

\* if isinstance(titles, str): titles = [titles]
as_list(arg) == IF arg.is_str THEN <<arg.value>> ELSE arg.value

\* every answer is taken for a good one
succeeded_always(r) == TRUE

\* fetch_version returns response.json() for a 200 answer and raises otherwise
succeeded(r) == r.status_code = 200

\* [d for sublist in versions for d in sublist]
RECURSIVE flatten(_)
flatten(lists) ==
    IF lists = <<>> THEN <<>> ELSE Head(lists) \o flatten(Tail(lists))

\* "title" in d and "versionTitle" in d and "languageFamilyName" in d
well_formed(d) == VersionKeys \subseteq d.has

InitBatch ==
    /\ op = "batch"
    /\ fv_pc = "call"
    /\ titles_arg \in TitleArguments
    /\ max_threads \in PoolSizes
    /\ futures = <<>> /\ count = 0 /\ versions_list = <<>> /\ fetched_versions = <<>>
    /\ ExtractIdle /\ RankIdle /\ ScanIdle /\ ConvertIdle
    /\ BesideBatchIdle

\* what a step of the batch leaves alone
BatchFrame ==
    UNCHANGED <<op, titles_arg, max_threads, extract_vars, rank_vars, scan_vars,
                convert_vars, beside_batch>>

\* the call up to the submission of one task for each title
Submit ==
    /\ fv_pc = "call"
    /\ futures' = [t \in 1..Len(as_list(titles_arg)) |->
                      [title |-> as_list(titles_arg)[t], state |-> "pending", seen |-> 0,
                       response |-> NoResponse]]
    /\ versions_list' = <<>>
    /\ count' = 0
    /\ fv_pc' = "collect"
    /\ UNCHANGED fetched_versions
    /\ BatchFrame

Running == {t \in 1..Len(futures) : futures[t].state = "running"}

\* a free worker takes task t; `count += 1` reads the counter
TaskStart(t) ==
    /\ fv_pc = "collect"
    /\ futures[t].state = "pending"
    /\ Cardinality(Running) < max_threads
    /\ futures' = [futures EXCEPT ![t].state = "running", ![t].seen = count]
    /\ UNCHANGED <<count, versions_list, fetched_versions, fv_pc>>
    /\ BatchFrame

\* `count += 1` writes the counter; the request ends and the task with it
TaskFinish(t) ==
    /\ futures[t].state = "running"
    /\ \E r \in VersionResponses(t) :
          futures' = [futures EXCEPT ![t].state = "done", ![t].response = r]
    /\ count' = futures[t].seen + 1
    /\ UNCHANGED <<versions_list, fetched_versions, fv_pc>>
    /\ BatchFrame

\* as_completed yields a finished task t: its result is appended, or its
\* exception is caught and printed
Collect(t) ==
    /\ fv_pc = "collect"
    /\ futures[t].state = "done"
    /\ futures' = [futures EXCEPT ![t].state = "yielded"]
    /\ versions_list' = IF succeeded(futures[t].response)
                        THEN Append(versions_list, futures[t].response.json)
                        ELSE versions_list
    /\ UNCHANGED <<count, fetched_versions, fv_pc>>
    /\ BatchFrame

\* every task was yielded: the lists are flattened and filtered, and returned
ReturnVersions ==
    /\ fv_pc = "collect"
    /\ \A t \in 1..Len(futures) : futures[t].state = "yielded"
    /\ fetched_versions' = SelectSeq(flatten(versions_list), well_formed)
    /\ fv_pc' = "returned"
    /\ UNCHANGED <<futures, count, versions_list>>
    /\ BatchFrame

NextBatch ==
    \/ Submit
    \/ \E t \in 1..Len(futures) : TaskStart(t) \/ TaskFinish(t) \/ Collect(t)
    \/ ReturnVersions

SpecBatch == InitBatch /\ [][NextBatch]_vars

\* the worker threads run and every request ends, with an answer or an exception
FairBatch == SpecBatch /\ WF_vars(NextBatch)

----------------------------------------------------------------------------
(* Properties of fetch_sefaria_versions, checked under FairBatch.           *)

\* the fetch of task t got a 200 answer
FetchSucceeded(t) == futures[t].response.status_code = 200

\* how often d is in the returned list
TimesFetched(d) ==
    Cardinality({k \in 1..Len(fetched_versions) : fetched_versions[k] = d})

\* the returned list has every record with the three keys of every task
\* that succeeded, once, and nothing else
IsolatedResult ==
    /\ \A t \in 1..Len(futures) :
          FetchSucceeded(t) =>
              \A n \in 1..Len(futures[t].response.json) :
                  VersionKeys \subseteq futures[t].response.json[n].has
                      => TimesFetched(futures[t].response.json[n]) = 1
    /\ \A k \in 1..Len(fetched_versions) :
          /\ FetchSucceeded(fetched_versions[k].of)
          /\ VersionKeys \subseteq fetched_versions[k].has

\* C21: whatever the order in which the tasks run and complete, a fetch that
\* fails does not abort the batch: the call returns, with every well-formed
\* record of every title whose fetch succeeded and no record of a title
\* whose fetch failed.
C21_FailureDoesNotAbortTheBatch ==
    /\ [](fv_pc = "returned" => IsolatedResult)
    /\ (op = "batch" => <>(fv_pc = "returned"))

\* three titles: the first fetch answered 500, the second raised, the third
\* succeeded and so did a lost update of the counter; the call has returned
\* the two well-formed records of the third
C21_Witness ==
    /\ fv_pc = "returned"
    /\ Len(futures) = 3
    /\ futures[1].response.status_code = 500
    /\ futures[2].response = RequestRaised
    /\ FetchSucceeded(3)
    /\ Len(fetched_versions) = 2
    /\ count < 3

----------------------------------------------------------------------------
(* DiscordEmbedPaginator.create_paginated_embeds.                           *)

\* longest list of embeds to paginate
MaxEmbeds == 4

\* largest page size asked for
MaxPerPage == 4

\* the argument left at its default None
NoEmbed == [is_none |-> TRUE, role |-> "", id |-> 0, title |-> <<>>]

\* discord.Embed(): an embed that has nothing set
EmptyEmbed(role) == [is_none |-> FALSE, role |-> role, id |-> 0, title |-> <<>>]

\* an embed with a title
TitledEmbed(role, id) ==
    [is_none |-> FALSE, role |-> role, id |-> id, title |-> <<"t">>]

\* the truth value of e: None is false, and so is an embed for which
\* discord.Embed.__bool__ finds nothing set
bool(e) == ~e.is_none /\ Len(e.title) > 0

\* lines 265-269
max_embeds_per_page(header, footer, per_page) ==
    per_page - (IF bool(header) THEN 1 ELSE 0) - (IF bool(footer) THEN 1 ELSE 0)

\* lines 278-282 and 289-293: the header is inserted at 0, the footer appended
with_header_and_footer(current_page, header, footer) ==
    (IF bool(header) THEN <<header>> ELSE <<>>)
        \o current_page
        \o (IF bool(footer) THEN <<footer>> ELSE <<>>)

\* the loop of lines 274-285 from embeds[i] on, and lines 288-297 after it
RECURSIVE paginate(_, _, _, _, _, _, _)
paginate(es, i, current_page, paginated, header, footer, per_page) ==
    IF i > Len(es)
    THEN IF Len(current_page) > 0
         THEN Append(paginated, with_header_and_footer(current_page, header, footer))
         ELSE paginated
    ELSE IF Len(current_page) + 1 = max_embeds_per_page(header, footer, per_page)
         THEN paginate(es, i + 1, <<>>,
                       Append(paginated,
                              with_header_and_footer(Append(current_page, es[i]),
                                                     header, footer)),
                       header, footer, per_page)
         ELSE paginate(es, i + 1, Append(current_page, es[i]), paginated,
                       header, footer, per_page)

create_paginated_embeds(es, header, footer, per_page) ==
    paginate(es, 1, <<>>, <<>>, header, footer, per_page)

InitPage ==
    /\ op = "embeds"
    /\ embeds \in {[i \in 1..n |-> TitledEmbed("content", i)] : n \in 0..MaxEmbeds}
    /\ header_embed \in {NoEmbed, EmptyEmbed("header"), TitledEmbed("header", 0)}
    /\ footer_embed \in {NoEmbed, EmptyEmbed("footer"), TitledEmbed("footer", 0)}
    /\ embeds_per_page \in 1..MaxPerPage
    /\ paginated_embeds = <<>>
    /\ ExtractIdle /\ RankIdle /\ ScanIdle /\ ConvertIdle
    /\ BesidePageIdle

CreatePaginatedEmbeds ==
    /\ op = "embeds"
    /\ paginated_embeds' =
          create_paginated_embeds(embeds, header_embed, footer_embed, embeds_per_page)
    /\ op' = "paginated"
    /\ UNCHANGED <<embeds, header_embed, footer_embed, embeds_per_page>>
    /\ UNCHANGED <<extract_vars, rank_vars, scan_vars, convert_vars, beside_page>>

NextPage == CreatePaginatedEmbeds

SpecPage == InitPage /\ [][NextPage]_vars

----------------------------------------------------------------------------
(* Properties of create_paginated_embeds, checked under SpecPage.           *)

\* C23: every page holds at most embeds_per_page embeds, the header and the
\* footer on it counted, for every embeds_per_page >= 1, any number of
\* embeds and a header and a footer present or absent.
C23_PageHoldsAtMostEmbedsPerPage ==
    op = "paginated" =>
        \A p \in 1..Len(paginated_embeds) : Len(paginated_embeds[p]) <= embeds_per_page

\* the embeds of a page that came from the list to paginate
ContentOf(one_page) == SelectSeq(one_page, LAMBDA e : e.role = "content")

\* C24: nothing is lost, duplicated or reordered: the content embeds of the
\* pages, in page order, are the list that was given; no page is without a
\* content embed; a header that was given is the first embed of every page
\* and a footer that was given the last.
C24_PagesKeepTheEmbedsBetweenHeaderAndFooter ==
    op = "paginated" =>
        /\ flatten([p \in 1..Len(paginated_embeds) |-> ContentOf(paginated_embeds[p])])
              = embeds
        /\ \A p \in 1..Len(paginated_embeds) :
              /\ ContentOf(paginated_embeds[p]) # <<>>
              /\ ~header_embed.is_none => Head(paginated_embeds[p]) = header_embed
              /\ ~footer_embed.is_none =>
                    paginated_embeds[p][Len(paginated_embeds[p])] = footer_embed

----------------------------------------------------------------------------
(* DiscordEmbedCreator.EmbedData.to_discord_embed: the truncation it        *)
(* applies before it builds the embed.  The method reads nothing of a text  *)
(* but its length, so a text is held as its length.                         *)

MAX_TITLE_LENGTH == 256
MAX_DESCRIPTION_LENGTH == 4093
MAX_FIELDS == 25
MAX_FIELD_NAME_LENGTH == 253
MAX_FIELD_VALUE_LENGTH == 1021
MAX_FOOTER_TEXT_LENGTH == 2045
MAX_AUTHOR_NAME_LENGTH == 253
MAX_TOTAL_CHARACTERS == 6000

\* None, for a text or for the footer or author that would hold it
NoText == [none |-> TRUE, len |-> 0]

\* a text of n characters
Text(n) == [none |-> FALSE, len |-> n]

\* len(t or "")
len_or_empty(t) == IF t.none THEN 0 ELSE t.len

\* the two copies of the method
SourceFiles == {"helpers/pycord_helpers.py", "rambam/helpers/pycord_helpers.py"}

\* the text an over-long text is replaced by: f"{t[:max_length]}..." in
\* helpers/pycord_helpers.py; in rambam/helpers/pycord_helpers.py the braces
\* are missing and the text is the literal, e.g.
\* "self.title[:self.MAX_TITLE_LENGTH]...", of literal_length characters
with_ellipsis(t, max_length, literal_length, file) ==
    IF file = "helpers/pycord_helpers.py"
    THEN Text((IF t.len < max_length THEN t.len ELSE max_length) + Len(<<".", ".", ".">>))
    ELSE Text(literal_length)

\* lines 123-130: `if t and len(t) > max_length: t = ...`
shortened(t, max_length, literal_length, file) ==
    IF ~t.none /\ t.len > max_length
    THEN with_ellipsis(t, max_length, literal_length, file)
    ELSE t

\* lines 133-134
first_fields(fields) ==
    IF Len(fields) > MAX_FIELDS THEN SubSeq(fields, 1, MAX_FIELDS) ELSE fields

\* lines 145-155: the name and the value are cut to their limits
cut_field(f) ==
    [name |-> IF f.name > MAX_FIELD_NAME_LENGTH THEN MAX_FIELD_NAME_LENGTH ELSE f.name,
     value |-> IF f.value > MAX_FIELD_VALUE_LENGTH THEN MAX_FIELD_VALUE_LENGTH ELSE f.value]

\* lines 145-157: what one field adds to total_characters: the length of
\* its name if the name was cut and 0 otherwise, and the same for the value
counted(f) ==
    (IF f.name > MAX_FIELD_NAME_LENGTH THEN MAX_FIELD_NAME_LENGTH ELSE 0)
        + (IF f.value > MAX_FIELD_VALUE_LENGTH THEN MAX_FIELD_VALUE_LENGTH ELSE 0)

RECURSIVE sum_counted(_)
sum_counted(fields) ==
    IF fields = <<>> THEN 0 ELSE counted(Head(fields)) + sum_counted(Tail(fields))

\* lines 160-165: the description gives up the excess, or everything
fitted_description(description, total_characters) ==
    IF total_characters > MAX_TOTAL_CHARACTERS
    THEN IF ~description.none /\ description.len > 0
               /\ description.len > total_characters - MAX_TOTAL_CHARACTERS
         THEN Text(description.len - (total_characters - MAX_TOTAL_CHARACTERS))
         ELSE Text(0)
    ELSE description

\* lines 123-165
to_discord_embed(data, file) ==
    LET title == shortened(data.title, MAX_TITLE_LENGTH, 37, file)
        description == shortened(data.description, MAX_DESCRIPTION_LENGTH, 49, file)
        footer == shortened(data.footer, MAX_FOOTER_TEXT_LENGTH, 49, file)
        author == shortened(data.author, MAX_AUTHOR_NAME_LENGTH, 49, file)
        fields == first_fields(data.fields)
        total_characters ==
            len_or_empty(title) + len_or_empty(description) + len_or_empty(footer)
                + len_or_empty(author) + sum_counted(fields)
    IN  [title |-> title,
         description |-> fitted_description(description, total_characters),
         footer |-> footer,
         author |-> author,
         fields |-> [i \in 1..Len(fields) |-> cut_field(fields[i])]]

\* the lists of fields tried: none, one, as many as are kept, one more; all
\* fields of a list alike: short, at the limits, or over them
FieldLists ==
    {[i \in 1..n |-> f] :
        n \in {0, 1, MAX_FIELDS, MAX_FIELDS + 1},
        f \in {[name |-> 5, value |-> 10],
               [name |-> MAX_FIELD_NAME_LENGTH, value |-> MAX_FIELD_VALUE_LENGTH],
               [name |-> MAX_FIELD_NAME_LENGTH + 1, value |-> MAX_FIELD_VALUE_LENGTH + 1]}}

InitEmbed ==
    /\ op = "embed_data"
    /\ source_file \in SourceFiles
    /\ embed_data \in
          [title : {NoText, Text(10), Text(MAX_TITLE_LENGTH), Text(MAX_TITLE_LENGTH + 1)},
           description : {NoText, Text(100), Text(MAX_DESCRIPTION_LENGTH),
                          Text(MAX_DESCRIPTION_LENGTH + 1)},
           footer : {NoText, Text(20), Text(MAX_FOOTER_TEXT_LENGTH + 1)},
           author : {NoText, Text(MAX_AUTHOR_NAME_LENGTH + 1)},
           fields : FieldLists]
    /\ ExtractIdle /\ RankIdle /\ ScanIdle /\ ConvertIdle
    /\ BesideEmbedIdle

ToDiscordEmbed ==
    /\ op = "embed_data"
    /\ embed_data' = to_discord_embed(embed_data, source_file)
    /\ op' = "embed"
    /\ UNCHANGED source_file
    /\ UNCHANGED <<extract_vars, rank_vars, scan_vars, convert_vars, beside_embed>>

NextEmbed == ToDiscordEmbed

SpecEmbed == InitEmbed /\ [][NextEmbed]_vars

----------------------------------------------------------------------------
(* Properties of to_discord_embed, checked under SpecEmbed.                 *)

RECURSIVE sum_fields(_)
sum_fields(fields) ==
    IF fields = <<>> THEN 0
    ELSE Head(fields).name + Head(fields).value + sum_fields(Tail(fields))

\* the characters of the embed: title, description, footer text, author
\* name and the names and values of the fields
TotalCharacters ==
    len_or_empty(embed_data.title) + len_or_empty(embed_data.description)
        + len_or_empty(embed_data.footer) + len_or_empty(embed_data.author)
        + sum_fields(embed_data.fields)

\* C25: after the truncation the embed meets the limits the method
\* enforces: title, description, footer text, author name and the names and
\* values of the fields have at most MAX_TOTAL_CHARACTERS characters
\* together, and the title at most MAX_TITLE_LENGTH.
C25_TruncatedEmbedMeetsTheLimits ==
    op = "embed" =>
        /\ TotalCharacters <= MAX_TOTAL_CHARACTERS
        /\ len_or_empty(embed_data.title) <= MAX_TITLE_LENGTH

----------------------------------------------------------------------------
(* rambam.py: the handler on_command_error, from the event to its end.      *)

\* the channels of line 137; an id is held as its digits
allowed_channels == {"1303123580514472067", "1303068218578960425"}

\* the checks without the one for bot authors
skip_reason_without_bot_check(m) ==
    IF m.type # "default" THEN "Non-text message, skip!"
    ELSE IF m.channel_id \notin allowed_channels THEN "Wrong channel, skip!"
    ELSE ""

\* lines 128-140: what the handler logs before it returns early, "" if it goes on
skip_reason(m) ==
    IF m.type # "default" THEN "Non-text message, skip!"
    ELSE IF m.bot THEN "Bot message, skip!"
    ELSE IF m.channel_id \notin allowed_channels THEN "Wrong channel, skip!"
    ELSE ""

\* a text with no reference in it
HELLO == <<"h","e","l","l","o">>

\* the messages of the events
CtxMessages ==
    [type : {"default", "reply", "pins_add"},
     bot : BOOLEAN,
     channel_id : allowed_channels \cup {"1303000000000000000"},
     content : {BERAKHOT_THEN_JOHN, GENESIS_3_7, JOHN_3_16, HELLO}]

InitHandler ==
    /\ op = "event"
    /\ ctx_message \in CtxMessages
    /\ parse_calls = <<>>
    /\ christian_titles = books
    /\ jewish_titles = <<BERAKHOT>>
    /\ response = [status_code |-> 0, json |-> <<>>]
    /\ sefaria_index = <<>> /\ message = <<>> /\ combined_matches = <<>> /\ dispatched = <<>>
    /\ ExtractIdle /\ RankIdle /\ ConvertIdle
    /\ BesideHandlerIdle

\* the handler from line 101 to its end: it returns early for a message it
\* skips; otherwise parse_message scans the content and calls the lookups,
\* one of which may raise; if they gave pages, the loop of line 148 unpacks
\* a page into three names and raises
OnCommandError ==
    /\ op = "event"
    /\ IF skip_reason(ctx_message) # ""
       THEN /\ op' = "skipped"
            /\ UNCHANGED <<parse_calls, message, combined_matches, dispatched>>
       ELSE /\ parse_calls' = Append(parse_calls, ctx_message.content)
            /\ message' = ctx_message.content
            /\ \E retained \in {scan(ctx_message.content, christian_titles, jewish_titles)} :
                 \E raised \in {0} \cup {k \in 1..Len(retained) : retained[k].source = "sefaria"} :
                     /\ combined_matches' = retained
                     /\ dispatched' = IF raised = 0 THEN lookups(retained)
                                      ELSE SubSeq(lookups(retained), 1, raised)
                     /\ \E gave_pages \in {FALSE} \cup {Len(retained) > 0} :
                            op' = IF raised # 0 THEN "lookup_raised"
                                  ELSE IF gave_pages THEN "unpack_raised"
                                  ELSE "nothing_to_send"
    /\ UNCHANGED <<ctx_message, response, sefaria_index, christian_titles, jewish_titles>>
    /\ UNCHANGED <<extract_vars, rank_vars, convert_vars, beside_handler>>

NextHandler == OnCommandError

SpecHandler == InitHandler /\ [][NextHandler]_vars

----------------------------------------------------------------------------
(* Properties of on_command_error, checked under SpecHandler.               *)

\* the message is of the default type, not by a bot, and in an allowed channel
PassesAllThree ==
    /\ ctx_message.type = "default"
    /\ ~ctx_message.bot
    /\ ctx_message.channel_id \in {"1303123580514472067", "1303068218578960425"}

\* C26: the handler neither scans nor dispatches a lookup for a message that
\* is not of the default type, or is by a bot, or is outside the two allowed
\* channels: only a message that passes all three checks reaches the scanner.
C26_OnlyPassingMessagesAreScanned ==
    op \in {"skipped", "lookup_raised", "unpack_raised", "nothing_to_send"} =>
        /\ (parse_calls # <<>> \/ combined_matches # <<>> \/ dispatched # <<>>)
              => PassesAllThree
        /\ op = "skipped" <=> ~PassesAllThree

\* a message of a person in an allowed channel was scanned and both its
\* references were looked up
C26_Witness ==
    /\ op = "unpack_raised"
    /\ PassesAllThree
    /\ parse_calls = <<BERAKHOT_THEN_JOHN>>
    /\ Len(dispatched) = 2

----------------------------------------------------------------------------
(* YouTubeTranscriptSearch.search_transcripts and parse_results.            *)

\* the most pages of results the upstream has
MaxPages == 4

\* urllib.parse.quote on one character: letters, digits and _ . - ~ / stay,
\* the others become their percent escapes
quote_char(c) ==
    IF c \in AlphaChars \cup DigitChars \cup {"_", ".", "-", "~", "/"} THEN <<c>>
    ELSE IF c = " " THEN <<"%", "2", "0">>
    ELSE IF c = ":" THEN <<"%", "3", "A">>
    ELSE <<"%", "3", "F">>

\* urllib.parse.quote
RECURSIVE quote(_)
quote(text) == IF text = <<>> THEN <<>> ELSE quote_char(Head(text)) \o quote(Tail(text))

\* the parsed results of one video: one for each of its hits
hits_of(video) ==
    [k \in 1..Len(video.hits) |-> [video_id |-> video.vid, start |-> video.hits[k]]]

\* parse_results: False if the page has no `window.results = {...};` or the
\* object in it is not JSON, else one result for each hit of each video
parse_results(html_content) ==
    IF html_content.window_results # "object"
    THEN [is_false |-> TRUE, items |-> <<>>]
    ELSE [is_false |-> FALSE,
          items |-> flatten([v \in 1..Len(html_content.videos) |->
                                hits_of(html_content.videos[v])])]

\* `not results`
no_results(parsed_results) == parsed_results.is_false \/ parsed_results.items = <<>>

\* the results of a page put before those gathered so far
extended_in_front(gathered, parsed_results) == parsed_results.items \o gathered

\* all_results.extend(results)
extended(gathered, parsed_results) == gathered \o parsed_results.items

\* a page of the site
Html(window_results, videos) == [window_results |-> window_results, videos |-> videos]

\* what the upstream may answer for page n: pages with hits (their start
\* times tell the page), and answers that end the paging: a page without
\* the results object, one whose object is not JSON, one with no video, one
\* with a video that has no hit, and a 500
PagesWithResults(n) ==
    {[status_code |-> 200,
      text |-> Html("object", <<[vid |-> "a", hits |-> <<10 * n + 1>>]>>)],
     [status_code |-> 200,
      text |-> Html("object", <<[vid |-> "a", hits |-> <<10 * n + 1, 10 * n + 2>>],
                                [vid |-> "b", hits |-> <<10 * n + 3>>]>>)]}

PagesWithout(n) ==
    {[status_code |-> 200, text |-> Html("absent", <<>>)],
     [status_code |-> 200, text |-> Html("invalid", <<>>)],
     [status_code |-> 200, text |-> Html("object", <<>>)],
     [status_code |-> 200, text |-> Html("object", <<[vid |-> "a", hits |-> <<>>]>>)],
     [status_code |-> 500,
      text |-> Html("object", <<[vid |-> "a", hits |-> <<10 * n + 1>>]>>)]}

\* the upstream has results on at most MaxPages - 1 pages
PageAnswers(n) ==
    IF n < MaxPages THEN PagesWithResults(n) \cup PagesWithout(n) ELSE PagesWithout(n)

HOLY_SPIRIT == <<"h","o","l","y"," ","s","p","i","r","i","t">>

InitSearch ==
    /\ op = "search"
    /\ query \in {HELLO, HOLY_SPIRIT}
    /\ page = 1
    /\ all_results = <<>>
    /\ requested = <<>>
    /\ answers = <<>>
    /\ ExtractIdle /\ RankIdle /\ ScanIdle /\ ConvertIdle
    /\ BesideSearchIdle

\* one pass of the loop of lines 32-49: the page is requested; a 200 answer
\* with results is gathered and the next page is due; any other answer ends
\* the loop and the call returns all_results
RequestPage ==
    /\ op = "search"
    /\ requested' = Append(requested, [encoded_query |-> quote(query), page |-> page])
    /\ \E r \in PageAnswers(page) :
          /\ answers' = Append(answers, r)
          /\ IF r.status_code = 200 /\ ~no_results(parse_results(r.text))
             THEN /\ all_results' = extended(all_results, parse_results(r.text))
                  /\ page' = page + 1
                  /\ op' = "search"
             ELSE /\ op' = "returned"
                  /\ UNCHANGED <<all_results, page>>
    /\ UNCHANGED query
    /\ UNCHANGED <<extract_vars, rank_vars, scan_vars, convert_vars, beside_search>>

NextSearch == RequestPage

SpecSearch == InitSearch /\ [][NextSearch]_vars

\* the loop goes on: every request ends with an answer
FairSearch == SpecSearch /\ WF_vars(NextSearch)

----------------------------------------------------------------------------
(* Properties of search_transcripts, checked under FairSearch.              *)

\* the answer is a 200 whose page has at least one hit
HasResults(r) ==
    /\ r.status_code = 200
    /\ r.text.window_results = "object"
    /\ \E v \in 1..Len(r.text.videos) : r.text.videos[v].hits # <<>>

\* the results on the page of an answer, in the order of the page
ResultsOn(r) ==
    flatten([v \in 1..Len(r.text.videos) |->
                [k \in 1..Len(r.text.videos[v].hits) |->
                    [video_id |-> r.text.videos[v].vid, start |-> r.text.videos[v].hits[k]]]])

\* the pages were asked for in the order 1, 2, 3, ..., each after a page
\* with results
AskedInOrder ==
    /\ \A k \in 1..Len(requested) : requested[k].page = k
    /\ \A k \in 1..(Len(answers) - 1) : HasResults(answers[k])

\* the call stopped at the first page without results, and returned the
\* results of the pages before it, in page order
StoppedAtFirstWithout ==
    /\ answers # <<>>
    /\ ~HasResults(answers[Len(answers)])
    /\ all_results = flatten([k \in 1..(Len(answers) - 1) |-> ResultsOn(answers[k])])

====
